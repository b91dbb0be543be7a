--------------------------- MODULE ReadCommitted ---------------------------
(* The database transactions of the requests (db/session.py, get_session), *)
(* at PostgreSQL's default isolation level.  A table is a function from    *)
(* its primary keys to values, one of which stands for "no row".  The      *)
(* writes of a transaction are a function on the rows it wrote: it sees    *)
(* them and holds the lock of those rows, others see them at its commit.   *)

NoWrites == [r \in {} |-> {}]

(* What a SELECT of the transaction with the writes own reads; committing  *)
(* makes it the table.                                                     *)
Seen(db, own) ==
    [r \in DOMAIN db |-> IF r \in DOMAIN own THEN own[r] ELSE db[r]]

(* own after the rows rs were written *)
Wrote(own, rs, v) ==
    [r \in DOMAIN own \cup rs |-> IF r \in rs THEN v ELSE own[r]]

(* Another transaction wrote one of the rows rs and has not ended. *)
HeldByOther(writes, t, rs) ==
    \E o \in DOMAIN writes \ {t} : rs \cap DOMAIN writes[o] # {}
=============================================================================
