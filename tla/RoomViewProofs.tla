---------------------------- MODULE RoomViewProofs ----------------------------
(* Proofs about RoomView, for any messages, toggles, page size and GETs:   *)
(* its types, that what the screen shows of a room is the room, and that   *)
(* its reactions are those of the database.                                *)
EXTENDS RoomView, FiniteSetTheorems, TLAPS

LEMMA MessageFacts ==
    /\ Old \cap New = {} /\ 0 \notin Message /\ Message \subseteq Nat
    /\ Target \in Message \ New
    /\ IsFiniteSet(Message) /\ IsFiniteSet(New) /\ Cardinality(New) = News
<1>1. Olds \in Nat /\ News \in Nat /\ Target \in Old
    BY MessagesAssumption
<1>2. Message = 1..(Olds + News)
    BY <1>1 DEF Message, Old, New
<1>3. IsFiniteSet(Message)
    BY <1>1, <1>2, FS_Interval
<1>4. IsFiniteSet(New) /\ Cardinality(New) = News
    BY <1>1, FS_Interval DEF New
<1>5. QED
    BY <1>1, <1>2, <1>3, <1>4 DEF Old, New, Message

LEMMA GetIsNotIdle ==
    ASSUME NEW g \in Get PROVE g # Idle
<1>1. g.kind \in {"latest", "older"}
    BY DEF Get
<1>2. Idle.kind = "idle"
    BY DEF Idle
<1>3. QED
    BY <1>1, <1>2

(* What is in a page: messages that were asked for, oldest first, and all  *)
(* of them, or a full page of those that are not older than the rest.      *)
PageOf(p, found) ==
    /\ p \in Seq(found)
    /\ \A i, j \in DOMAIN p : i < j =>
          p[i] # p[j] /\ created_at[p[i]] <= created_at[p[j]]
    /\ \A x \in found : (\E i \in DOMAIN p : p[i] = x)
                        \/ (Full(p) /\ \A i \in DOMAIN p : created_at[x] <= created_at[p[i]])
    /\ found # {} => p # <<>>

LEMMA PagesAre ==
    ASSUME stored \subseteq Message, NEW m, NEW p \in Pages(m)
    PROVE  OlderThan(m) \subseteq stored /\ PageOf(p, OlderThan(m))
<1>1. OlderThan(m) \subseteq stored
    BY DEF OlderThan
<1> DEFINE found == OlderThan(m)
           size == IF Cardinality(found) < PageSize THEN Cardinality(found) ELSE PageSize
<1>2. IsFiniteSet(found) /\ Cardinality(found) \in Nat
    BY <1>1, MessageFacts, FS_Subset, FS_CardinalityType
<1>3. PageSize \in Nat \ {0} /\ size \in Nat
    BY <1>2, MessagesAssumption
<1>4. /\ p \in [1..size -> found]
      /\ \A i, j \in 1..size : i < j => p[i] # p[j] /\ created_at[p[i]] <= created_at[p[j]]
      /\ \A x \in found \ {p[i] : i \in 1..size}, y \in {p[i] : i \in 1..size} :
            created_at[x] <= created_at[y]
    BY DEF Pages
<1> HIDE DEF found, size
<1>5. p \in Seq(found) /\ Len(p) = size /\ DOMAIN p = 1..size
    BY <1>3, <1>4
<1>6. CASE Cardinality(found) < PageSize
    <2>1. size = Cardinality(found)
        BY <1>6 DEF size
    <2>2. p \in Injection(1..size, found)
        <3>1. \A i, j \in 1..size : i # j => p[i] # p[j]
            BY <1>3, <1>4
        <3>2. QED
            BY <1>4, <3>1 DEF Injection, IsInjective
    <2>3. Cardinality(1..size) = size
        BY <1>3, FS_Interval
    <2>4. p \in Surjection(1..size, found)
        BY <1>2, <2>1, <2>2, <2>3, FS_Injection
    <2>5. \A x \in found : \E i \in 1..size : p[i] = x
        BY <2>4 DEF Surjection
    <2>6. QED
        BY <1>1, <1>4, <1>5, <2>5 DEF PageOf, found
<1>7. CASE ~(Cardinality(found) < PageSize)
    <2>1. size = PageSize
        BY <1>7 DEF size
    <2>2. Full(p) /\ p # <<>>
        BY <1>3, <1>5, <2>1 DEF Full
    <2>3. \A x \in found : (\E i \in 1..size : p[i] = x)
                           \/ \A i \in 1..size : created_at[x] <= created_at[p[i]]
        BY <1>4
    <2>4. QED
        BY <1>1, <1>4, <1>5, <2>2, <2>3 DEF PageOf, found
<1>8. QED
    BY <1>6, <1>7

LEMMA LatestIsAll == stored \subseteq Message => OlderThan(Latest) = stored
BY MessageFacts DEF OlderThan, Latest

LEMMA EntriesAre ==
    ASSUME NEW p \in Seq(Message), NEW by \in SUBSET Users
    PROVE  /\ Entries(p, by) \in Seq(Entry) /\ Len(Entries(p, by)) = Len(p)
           /\ \A i \in 1..Len(p) : /\ Entries(p, by)[i].id = p[i]
                                   /\ p[i] = Target => Entries(p, by)[i].by = by
<1> DEFINE e(i) == [id |-> p[i], by |-> IF p[i] = Target THEN by ELSE {}]
<1>1. DOMAIN p = 1..Len(p) /\ Len(p) \in Nat
    OBVIOUS
<1>2. \A i \in 1..Len(p) : e(i) \in Entry
    BY DEF Entry
<1>3. Entries(p, by) = [i \in 1..Len(p) |-> e(i)]
    BY <1>1 DEF Entries
<1>4. \A i \in 1..Len(p) : e(i).id = p[i] /\ (p[i] = Target => e(i).by = by)
    OBVIOUS
<1> HIDE DEF e
<1>5. QED
    BY <1>1, <1>2, <1>3, <1>4
-----------------------------------------------------------------------------
(* The parts of TypeOK, by what changes them.                              *)
Begun == {m \in New : sending[m] # "new"}

SendTyped ==
    /\ stored \subseteq Message /\ created_at \in [Message -> Nat]
    /\ clock \in Nat /\ \A m \in Message : created_at[m] <= clock
    /\ sending \in [New -> {"new", "flushed", "published", "ended"}]
    /\ clock <= Olds + Cardinality(Begun)
ToggleTyped ==
    /\ reacted \subseteq Users
    /\ toggling \in [Toggles -> {"new", "flush", "read", "publish", "commit", "ended"}]
    /\ plan \in [Toggles -> {"none", "add", "remove"}]
    /\ snapshot \in [Toggles -> SUBSET Users]
FeedTyped ==
    /\ link \in {"down", "accepted", "up"} /\ feed \in Seq(Payload)
    /\ feed # <<>> => link = "up"
TabTyped ==
    /\ active \in BOOLEAN /\ more \in BOOLEAN /\ loading \in BOOLEAN
    /\ failed \subseteq {"latest", "older"} /\ list \in Seq(Entry)
    /\ drops \in 0..MaxDrops
GetTyped == get \in [Gets -> Get \cup {Idle}]
CrossedTyped == crossed \subseteq Message \cup Toggles

Typed == SendTyped /\ ToggleTyped /\ FeedTyped /\ TabTyped /\ GetTyped /\ CrossedTyped

LEMMA TypedIsTypeOK == Typed => TypeOK
<1> SUFFICES ASSUME Typed PROVE TypeOK
    OBVIOUS
<1>1. Cardinality(Begun) \in Nat /\ Cardinality(Begun) <= News
    BY MessageFacts, FS_Subset, FS_CardinalityType DEF Begun
<1>2. clock \in 0..(Olds + News) /\ created_at \in [Message -> 0..(Olds + News)]
    BY <1>1, MessagesAssumption DEF Typed, SendTyped
<1>3. QED
    BY <1>2 DEF Typed, SendTyped, ToggleTyped, FeedTyped, TabTyped, GetTyped, CrossedTyped,
                TypeOK, ServerTypeOK

(* The steps by who takes them.                                            *)
SendStep == \E m \in New : Flush(m) \/ PublishMessage(m) \/ Store(m) \/ AbortSend(m)
ToggleStep == \E t \in Toggles : \/ Look(t) \/ FlushToggle(t) \/ ReadBack(t)
                                 \/ PublishReactions(t) \/ CommitToggle(t) \/ AbortToggle(t)
LinkStep == OnMessage \/ Drop \/ Reopen \/ Register
GetStep == \E g \in Gets : ReadPage(g) \/ ReadReactions(g) \/ Arrive(g) \/ GetFails(g)
ViewStep == Leave \/ Enter \/ ScrollUp

LEMMA Steps ==
    ASSUME Next
    PROVE  /\ Track
           /\ \/ SendStep /\ UNCHANGED <<toggleVars, link, tabVars>>
              \/ ToggleStep /\ UNCHANGED <<sendVars, link, tabVars>>
              \/ LinkStep /\ UNCHANGED <<sendVars, toggleVars>>
              \/ (GetStep \/ ViewStep) /\ UNCHANGED serverVars
<1>1. CASE \E m \in New : \/ Beside(Flush(m)) \/ Beside(PublishMessage(m))
                          \/ Beside(Store(m)) \/ Beside(AbortSend(m))
    BY <1>1 DEF Beside, SendStep, Flush, PublishMessage, Store, AbortSend
<1>2. CASE \E t \in Toggles : \/ Beside(Look(t)) \/ Beside(FlushToggle(t))
                              \/ Beside(ReadBack(t)) \/ Beside(PublishReactions(t))
                              \/ Beside(CommitToggle(t)) \/ Beside(AbortToggle(t))
    BY <1>2 DEF Beside, ToggleStep, Look, FlushToggle, ReadBack, PublishReactions,
                CommitToggle, AbortToggle
<1>3. CASE OnMessage \/ Drop \/ Reopen \/ Register
    BY <1>3 DEF LinkStep, OnMessage, Drop, Reopen, Register
<1>4. CASE \/ Leave \/ Enter \/ ScrollUp
           \/ \E g \in Gets : ReadPage(g) \/ ReadReactions(g) \/ Arrive(g) \/ GetFails(g)
    BY <1>4 DEF GetStep, ViewStep, Leave, Enter, ScrollUp, ReadPage, ReadReactions, Arrive,
                GetFails
<1>5. QED
    BY <1>1, <1>2, <1>3, <1>4 DEF Next

LEMMA BegunGrows ==
    ASSUME SendTyped, NEW m \in New, sending[m] = "new",
           sending' = [sending EXCEPT ![m] = "flushed"]
    PROVE  /\ Cardinality(Begun) \in Nat /\ Cardinality(Begun') = Cardinality(Begun) + 1
<1>1. IsFiniteSet(Begun) /\ Cardinality(Begun) \in Nat
    BY MessageFacts, FS_Subset, FS_CardinalityType DEF Begun
<1>2. Begun' = Begun \cup {m} /\ m \notin Begun
    BY DEF Begun, SendTyped
<1>3. QED
    BY <1>1, <1>2, FS_AddElement

LEMMA SendTypedStep ==
    ASSUME SendTyped, SendStep
    PROVE  SendTyped'
<1>1. ASSUME NEW m \in New, Flush(m) PROVE SendTyped'
    <2>1. PICK now \in {clock, clock + 1} :
            clock' = now /\ created_at' = [created_at EXCEPT ![m] = now]
        BY <1>1 DEF Flush
    <2>2. sending[m] = "new" /\ sending' = [sending EXCEPT ![m] = "flushed"]
        BY <1>1 DEF Flush, SendTo
    <2>3. Cardinality(Begun) \in Nat /\ Cardinality(Begun') = Cardinality(Begun) + 1
        BY <2>2, BegunGrows
    <2>4. clock' \in Nat /\ clock <= clock' /\ clock' <= Olds + Cardinality(Begun')
        BY <2>1, <2>3, MessagesAssumption DEF SendTyped
    <2>5. created_at' \in [Message -> Nat] /\ \A x \in Message : created_at'[x] <= clock'
        BY <2>1, <2>4 DEF SendTyped, Message
    <2>6. stored' = stored /\ sending' \in [New -> {"new", "flushed", "published", "ended"}]
        BY <1>1, <2>2 DEF SendTyped, Flush
    <2>7. QED
        BY <2>4, <2>5, <2>6 DEF SendTyped
<1>2. ASSUME NEW m \in New, PublishMessage(m) \/ Store(m) \/ AbortSend(m)
      PROVE  SendTyped'
    <2>1. /\ created_at' = created_at /\ clock' = clock /\ sending[m] # "new"
          /\ stored' \subseteq stored \cup {m}
          /\ \E l \in {"published", "ended"} : sending' = [sending EXCEPT ![m] = l]
        BY <1>2 DEF PublishMessage, Store, AbortSend, SendTo
    <2>2. Begun' = Begun
        BY <2>1 DEF Begun, SendTyped
    <2>3. QED
        BY <2>1, <2>2 DEF SendTyped, Message
<1>3. QED
    BY <1>1, <1>2 DEF SendStep

LEMMA PublishTyped ==
    ASSUME FeedTyped, NEW n \in Payload, Publish(n), link' = link
    PROVE  FeedTyped'
BY DEF FeedTyped, Publish

LEMMA AppliedTyped ==
    ASSUME ToggleTyped, NEW t \in Toggles
    PROVE  Applied(t) \subseteq Users
BY MessagesAssumption DEF ToggleTyped, Applied

LEMMA ToggleTypedStep ==
    ASSUME ToggleTyped, ToggleStep
    PROVE  ToggleTyped'
<1>1. ASSUME NEW t \in Toggles, EndToggle(t), reacted' \subseteq Users
      PROVE  ToggleTyped'
    BY <1>1 DEF EndToggle, ToggleTo, ToggleTyped
<1>2. ASSUME NEW t \in Toggles, Look(t) PROVE ToggleTyped'
    BY <1>2 DEF Look, ToggleTo, ToggleTyped
<1>3. ASSUME NEW t \in Toggles, FlushToggle(t) PROVE ToggleTyped'
    <2>1. reacted' = reacted
        BY <1>3 DEF FlushToggle
    <2>2. CASE EndToggle(t)
        BY <1>1, <2>1, <2>2 DEF ToggleTyped
    <2>3. CASE ToggleTo(t, "read") /\ UNCHANGED snapshot
               /\ plan' \in {plan, [plan EXCEPT ![t] = "none"]}
        BY <2>1, <2>3 DEF ToggleTo, ToggleTyped
    <2>4. QED
        BY <1>3, <2>2, <2>3 DEF FlushToggle
<1>4. ASSUME NEW t \in Toggles, ReadBack(t) PROVE ToggleTyped'
    BY <1>4, AppliedTyped DEF ReadBack, ToggleTo, ToggleTyped
<1>5. ASSUME NEW t \in Toggles, PublishReactions(t) PROVE ToggleTyped'
    BY <1>5 DEF PublishReactions, ToggleTo, ToggleTyped
<1>6. ASSUME NEW t \in Toggles, CommitToggle(t) \/ AbortToggle(t) PROVE ToggleTyped'
    BY <1>1, <1>6, AppliedTyped DEF CommitToggle, AbortToggle, ToggleTyped
<1>7. QED
    BY <1>2, <1>3, <1>4, <1>5, <1>6 DEF ToggleStep
LEMMA NewShown ==
    ASSUME NEW l \in Seq(Entry), NEW n \in Payload, n.type = "message.new"
    PROVE  /\ n.id \in New /\ Shown(l, n) = Append(l, [id |-> n.id, by |-> {}])
           /\ Shown(l, n) \in Seq(Entry)
<1>1. n.id \in New
    BY DEF Payload
<1>2. Shown(l, n) = Append(l, [id |-> n.id, by |-> {}])
    BY DEF Shown
<1>3. [id |-> n.id, by |-> {}] \in Entry
    BY <1>1 DEF Entry, Message
<1>4. QED
    BY <1>1, <1>2, <1>3

LEMMA UpdateShown ==
    ASSUME NEW l \in Seq(Entry), NEW n \in Payload, n.type = "reaction.update"
    PROVE  /\ n.by \in SUBSET Users /\ Shown(l, n) \in Seq(Entry)
           /\ Len(Shown(l, n)) = Len(l)
           /\ \A i \in 1..Len(l) : /\ Shown(l, n)[i].id = l[i].id
                                   /\ l[i].id = Target => Shown(l, n)[i].by = n.by
<1> DEFINE e(i) == IF l[i].id = Target THEN [l[i] EXCEPT !.by = n.by] ELSE l[i]
<1>1. n.by \in SUBSET Users
    BY DEF Payload
<1>2. DOMAIN l = 1..Len(l) /\ Len(l) \in Nat
    OBVIOUS
<1>3. Shown(l, n) = [i \in 1..Len(l) |-> e(i)]
    BY <1>2 DEF Shown
<1>4. ASSUME NEW i \in 1..Len(l)
      PROVE  e(i) \in Entry /\ e(i).id = l[i].id /\ (l[i].id = Target => e(i).by = n.by)
    <2>1. l[i] \in Entry
        BY <1>2
    <2>2. PICK r \in Entry : r = l[i]
        BY <2>1
    <2>3. [r EXCEPT !.by = n.by] \in Entry /\ [r EXCEPT !.by = n.by].id = r.id
          /\ [r EXCEPT !.by = n.by].by = n.by
        BY <1>1 DEF Entry
    <2>4. QED
        BY <2>2, <2>3
<1> HIDE DEF e
<1>5. QED
    BY <1>1, <1>2, <1>3, <1>4

LEMMA HeadTyped ==
    ASSUME FeedTyped, feed # <<>>
    PROVE  /\ Head(feed) \in Payload /\ Head(feed) = feed[1] /\ 1 \in DOMAIN feed
           /\ Tail(feed) \in Seq(Payload) /\ link = "up"
BY DEF FeedTyped

LEMMA LinkStepFeed ==
    ASSUME FeedTyped, LinkStep
    PROVE  FeedTyped'
<1>1. ASSUME OnMessage PROVE FeedTyped'
    <2>1. feed' \in Seq(Payload) /\ link = "up" /\ link' = link
        BY <1>1, HeadTyped DEF OnMessage
    <2>2. QED
        BY <2>1 DEF FeedTyped
<1>2. ASSUME Drop PROVE FeedTyped'
    BY <1>2 DEF Drop, FeedTyped
<1>3. ASSUME Reopen \/ Register PROVE FeedTyped'
    <2>1. feed' = feed /\ link # "up" /\ link' \in {"accepted", "up"}
        BY <1>3 DEF Reopen, Register
    <2>2. QED
        BY <2>1 DEF FeedTyped
<1>4. QED
    BY <1>1, <1>2, <1>3 DEF LinkStep

LEMMA ServerStepFeed ==
    ASSUME ToggleTyped, FeedTyped, SendStep \/ ToggleStep, link' = link
    PROVE  FeedTyped'
<1>1. ASSUME NEW m \in New, PublishMessage(m) PROVE FeedTyped'
    <2>1. [type |-> "message.new", id |-> m] \in Payload
        BY DEF Payload
    <2>2. QED
        BY <1>1, <2>1, PublishTyped DEF PublishMessage
<1>2. ASSUME NEW t \in Toggles, PublishReactions(t) PROVE FeedTyped'
    <2>1. [type |-> "reaction.update", by |-> snapshot[t]] \in Payload
        BY DEF Payload, ToggleTyped
    <2>2. QED
        BY <1>2, <2>1, PublishTyped DEF PublishReactions
<1>3. ASSUME feed' = feed PROVE FeedTyped'
    BY <1>3 DEF FeedTyped
<1>4. QED
    BY <1>1, <1>2, <1>3 DEF SendStep, ToggleStep, Flush, Store, AbortSend, Look, FlushToggle,
                            ReadBack, CommitToggle, AbortToggle
-----------------------------------------------------------------------------
(* What the steps do to the GETs.                                          *)
Only(g) == \A h \in Gets \ {g} : get'[h] = get[h]
Asked(g, kind, existing) ==
    /\ get[g] = Idle /\ get'[g] \in Get /\ Only(g)
    /\ get'[g].kind = kind /\ get'[g].existing = existing /\ get'[g].at = "sent"

LEMMA AskFacts ==
    ASSUME GetTyped, NEW g \in Gets, NEW kind \in {"latest", "older"},
           NEW existing \in Seq(Entry), Ask(g, kind, existing)
    PROVE  GetTyped' /\ Asked(g, kind, existing)
<1>1. PICK r : r = [kind |-> kind, existing |-> existing, page |-> <<>>, by |-> {},
                    at |-> "sent"]
    OBVIOUS
<1>2. /\ r \in Get /\ r.kind = kind /\ r.existing = existing /\ r.at = "sent"
    BY <1>1 DEF Get
<1>3. get[g] = Idle /\ get' = [get EXCEPT ![g] = r]
    BY <1>1 DEF Ask
<1>4. QED
    BY <1>2, <1>3 DEF GetTyped, Asked, Only

LEMMA ReadPageFacts ==
    ASSUME Typed, NEW g \in Gets, ReadPage(g)
    PROVE  /\ GetTyped' /\ Only(g) /\ get[g] \in Get /\ get'[g] \in Get /\ get[g].at = "sent"
           /\ get'[g].kind = get[g].kind /\ get'[g].existing = get[g].existing
           /\ get'[g].at = "paged"
           /\ get'[g].page \in Pages(IF get[g].kind = "latest" THEN Latest
                                     ELSE get[g].existing[1].id)
<1>1. get[g] \in Get /\ get[g].at = "sent"
    BY DEF ReadPage, Typed, GetTyped
<1>2. PICK r \in Get : r = get[g]
    BY <1>1
<1>3. PICK p \in Pages(IF r.kind = "latest" THEN Latest ELSE r.existing[1].id) :
            get' = [get EXCEPT ![g].page = p, ![g].at = "paged"]
    BY <1>2 DEF ReadPage
<1>4. p \in Seq(Message)
    <2>1. PICK m : m = IF r.kind = "latest" THEN Latest ELSE r.existing[1].id
        OBVIOUS
    <2>2. stored \subseteq Message /\ p \in Pages(m)
        BY <1>3, <2>1 DEF Typed, SendTyped
    <2>3. OlderThan(m) \subseteq Message /\ p \in Seq(OlderThan(m))
        BY <2>2, PagesAre DEF PageOf
    <2>4. QED
        BY <2>3
<1>5. PICK n : n = [r EXCEPT !.page = p, !.at = "paged"]
    OBVIOUS
<1>6. n \in Get /\ n.kind = r.kind /\ n.existing = r.existing /\ n.page = p /\ n.at = "paged"
    BY <1>4, <1>5 DEF Get
<1>7. get' = [get EXCEPT ![g] = n]
    BY <1>2, <1>3, <1>5 DEF Typed, GetTyped
<1>8. QED
    BY <1>1, <1>2, <1>3, <1>6, <1>7 DEF Typed, GetTyped, Only

LEMMA ReadReactionsFacts ==
    ASSUME Typed, NEW g \in Gets, ReadReactions(g)
    PROVE  /\ GetTyped' /\ Only(g) /\ get[g] \in Get /\ get'[g] \in Get /\ get[g].at = "paged"
           /\ get'[g].kind = get[g].kind /\ get'[g].existing = get[g].existing
           /\ get'[g].page = get[g].page /\ get'[g].by = reacted /\ get'[g].at = "read"
<1>1. get[g] \in Get /\ get[g].at = "paged"
    BY DEF ReadReactions, Typed, GetTyped
<1>2. PICK r \in Get : r = get[g]
    BY <1>1
<1>3. get' = [get EXCEPT ![g].by = reacted, ![g].at = "read"]
    BY DEF ReadReactions
<1>4. PICK n : n = [r EXCEPT !.by = reacted, !.at = "read"]
    OBVIOUS
<1>5. /\ n \in Get /\ n.kind = r.kind /\ n.existing = r.existing /\ n.page = r.page
      /\ n.by = reacted /\ n.at = "read"
    BY <1>4 DEF Get, Typed, ToggleTyped
<1>6. get' = [get EXCEPT ![g] = n]
    BY <1>2, <1>3, <1>4 DEF Typed, GetTyped
<1>7. QED
    BY <1>1, <1>2, <1>5, <1>6 DEF Typed, GetTyped, Only

LEMMA EndGetFacts ==
    ASSUME GetTyped, NEW g \in Gets, Arrive(g) \/ GetFails(g)
    PROVE  GetTyped' /\ Only(g) /\ get[g] \in Get /\ get'[g] = Idle
BY DEF Arrive, GetFails, GetTyped, Only

LEMMA ArriveTyped ==
    ASSUME Typed, NEW g \in Gets, Arrive(g)
    PROVE  TabTyped'
<1>1. PICK r \in Get : r = get[g]
    BY EndGetFacts DEF Typed
<1>2. r.page \in Seq(Message) /\ r.by \in SUBSET Users /\ r.existing \in Seq(Entry)
    BY DEF Get
<1>3. PICK e \in Seq(Entry) : e = Entries(r.page, r.by)
    BY <1>2, EntriesAre
<1>4. list' = IF r.kind = "latest" THEN e ELSE e \o r.existing
    BY <1>1, <1>3 DEF Arrive
<1>5. list' \in Seq(Entry)
    BY <1>2, <1>4
<1>6. more' \in BOOLEAN
    <2>1. more' = Full(r.page)
        BY <1>1 DEF Arrive
    <2>2. QED
        BY <2>1 DEF Full
<1>7. loading' \in BOOLEAN
    <2>1. loading' = FALSE \/ loading' = loading
        BY DEF Arrive
    <2>2. QED
        BY <2>1 DEF Typed, TabTyped
<1>8. failed' \subseteq failed /\ UNCHANGED <<active, drops>>
    BY DEF Arrive
<1>9. QED
    BY <1>5, <1>6, <1>7, <1>8 DEF Typed, TabTyped

LEMMA TabStep ==
    ASSUME Typed, LinkStep \/ GetStep \/ ViewStep
    PROVE  TabTyped' /\ GetTyped'
<1>1. ASSUME NEW g \in Gets, Arrive(g) PROVE TabTyped' /\ GetTyped'
    BY <1>1, ArriveTyped, EndGetFacts DEF Typed
<1>2. ASSUME NEW g \in Gets, GetFails(g) PROVE TabTyped' /\ GetTyped'
    <2>1. GetTyped' /\ get[g].kind \in {"latest", "older"}
        BY <1>2, EndGetFacts DEF Get, Typed
    <2>2. TabTyped'
        BY <1>2, <2>1 DEF GetFails, Typed, TabTyped
    <2>3. QED
        BY <2>1, <2>2
<1>3. ASSUME NEW g \in Gets, ReadPage(g) PROVE TabTyped' /\ GetTyped'
    <2>1. GetTyped'
        BY <1>3, ReadPageFacts
    <2>2. QED
        BY <1>3, <2>1 DEF ReadPage, Typed, TabTyped
<1>4. ASSUME NEW g \in Gets, ReadReactions(g) PROVE TabTyped' /\ GetTyped'
    <2>1. GetTyped'
        BY <1>4, ReadReactionsFacts
    <2>2. QED
        BY <1>4, <2>1 DEF ReadReactions, Typed, TabTyped
<1>5. <<>> \in Seq(Entry) /\ list \in Seq(Entry) /\ GetTyped
    BY DEF Typed, TabTyped
<1>6. ASSUME Leave PROVE TabTyped' /\ GetTyped'
    BY <1>6 DEF Leave, Typed, TabTyped, GetTyped
<1>7. ASSUME Enter PROVE TabTyped' /\ GetTyped'
    <2>1. GetTyped'
        BY <1>5, <1>7, AskFacts DEF Enter
    <2>2. QED
        BY <1>7, <2>1 DEF Enter, Typed, TabTyped
<1>8. ASSUME ScrollUp PROVE TabTyped' /\ GetTyped'
    <2>1. GetTyped'
        BY <1>5, <1>8, AskFacts DEF ScrollUp
    <2>2. QED
        BY <1>8, <2>1 DEF ScrollUp, Typed, TabTyped
<1>9. ASSUME OnMessage PROVE TabTyped' /\ GetTyped'
    <2>1. PICK n \in Payload : n = Head(feed)
        BY <1>9, HeadTyped DEF OnMessage, Typed
    <2>2. n.type \in {"message.new", "reaction.update"}
        BY DEF Payload
    <2>3. list' = Shown(list, n) /\ list' \in Seq(Entry)
        BY <1>5, <1>9, <2>1, <2>2, NewShown, UpdateShown DEF OnMessage
    <2>4. QED
        BY <1>9, <2>3 DEF OnMessage, Typed, TabTyped, GetTyped
<1>10. ASSUME Drop PROVE TabTyped' /\ GetTyped'
    BY <1>10, RoomViewAssumption DEF Drop, Typed, TabTyped, GetTyped
<1>11. ASSUME Reopen PROVE TabTyped' /\ GetTyped'
    <2>1. GetTyped'
        <3>1. CASE active
            BY <1>5, <1>11, <3>1, AskFacts DEF Reopen
        <3>2. CASE ~active
            BY <1>5, <1>11, <3>2 DEF Reopen, GetTyped
        <3>3. QED
            BY <3>1, <3>2
    <2>2. QED
        BY <1>11, <2>1 DEF Reopen, Typed, TabTyped
<1>12. ASSUME Register PROVE TabTyped' /\ GetTyped'
    BY <1>12 DEF Register, tabVars, Typed, TabTyped, GetTyped
<1>13. QED
    BY <1>1, <1>2, <1>3, <1>4, <1>6, <1>7, <1>8, <1>9, <1>10, <1>11, <1>12
       DEF LinkStep, GetStep, ViewStep
-----------------------------------------------------------------------------
(* What Track does.                                                        *)
Alone == Busy = {} /\ \E g \in Gets : get'[g] # Idle /\ get'[g].kind = "latest"
Met == Busy # {} \/ link = "accepted"
TogglesAbout == TogglesUnderWay # {} \/ Coming("reaction.update") # {}

LEMMA Marks ==
    ASSUME Track
    PROVE  /\ crossed \subseteq crossed' \/ Alone
           /\ Met' => SendsUnderWay' \subseteq crossed'
           /\ \A g, h \in Busy' : g # h => Message \cup Toggles \subseteq crossed'
           /\ Met' /\ TogglesAbout' => Toggles \subseteq crossed'
           /\ \A s, t \in TogglesUnderWay' : s # t => Toggles \subseteq crossed'
           /\ \A t \in Toggles : toggling[t] = "commit" /\ toggling'[t] = "ended"
                                 /\ reacted' # Applied(t) => Toggles \subseteq crossed'
           /\ crossed' \subseteq crossed \cup SendsUnderWay' \cup Message \cup Toggles
<1> DEFINE two == \E g, h \in Busy' : g # h
           bad == \/ two
                  \/ Met' /\ TogglesAbout'
                  \/ \E s, t \in TogglesUnderWay' : s # t
                  \/ \E t \in Toggles : toggling[t] = "commit" /\ toggling'[t] = "ended"
                                        /\ reacted' # Applied(t)
<1>1. crossed' = (IF Alone THEN {} ELSE crossed)
                 \cup (IF Met' THEN SendsUnderWay' ELSE {})
                 \cup (IF two THEN Message ELSE {})
                 \cup (IF bad THEN Toggles ELSE {})
    BY DEF Track, Alone, Met, TogglesAbout
<1> HIDE DEF bad, two
<1>2. /\ crossed \subseteq crossed' \/ Alone
      /\ Met' => SendsUnderWay' \subseteq crossed'
      /\ two => Message \subseteq crossed'
      /\ bad => Toggles \subseteq crossed'
      /\ crossed' \subseteq crossed \cup SendsUnderWay' \cup Message \cup Toggles
    <2> HIDE DEF Alone, Met
    <2>1. PICK a : a = (IF Alone THEN {} ELSE crossed)
        OBVIOUS
    <2>2. PICK b : b = (IF Met' THEN SendsUnderWay' ELSE {})
        OBVIOUS
    <2>3. PICK c : c = (IF two THEN Message ELSE {})
        OBVIOUS
    <2>4. PICK d : d = (IF bad THEN Toggles ELSE {})
        OBVIOUS
    <2>5. crossed' = a \cup b \cup c \cup d
        BY <1>1, <2>1, <2>2, <2>3, <2>4
    <2>6. QED
        BY <2>1, <2>2, <2>3, <2>4, <2>5
<1>3. \A g, h \in Busy' : g # h => two /\ bad
    BY DEF two, bad
<1>4. QED
    BY <1>2, <1>3 DEF bad

LEMMA UnderWayTyped ==
    (FeedTyped => SendsUnderWay \subseteq New) /\ (FeedTyped' => SendsUnderWay' \subseteq New)
<1>1. FeedTyped => SendsUnderWay \subseteq New
    BY DEF FeedTyped, SendsUnderWay, Coming, Payload
<1>2. FeedTyped' => SendsUnderWay' \subseteq New
    BY DEF FeedTyped, SendsUnderWay, Coming, Payload
<1>3. QED
    BY <1>1, <1>2

LEMMA TypedInit == Init => Typed
<1> SUFFICES ASSUME Init PROVE Typed
    OBVIOUS
<1>1. Old \subseteq Message /\ \A m \in Old : m \in Nat /\ m <= Olds
    BY MessagesAssumption DEF Message, Old
<1>2. Begun = {} /\ Cardinality(Begun) = 0
    <2>1. Begun = {}
        BY DEF Init, ServerInit, Begun
    <2>2. QED
        BY <2>1, FS_EmptySet
<1>3. SendTyped
    <2>1. Olds \in Nat /\ clock = Olds /\ stored = Old
        BY MessagesAssumption DEF Init, ServerInit
    <2>2. created_at \in [Message -> Nat] /\ \A m \in Message : created_at[m] <= clock
        BY <1>1, <2>1 DEF Init, ServerInit
    <2>3. sending \in [New -> {"new", "flushed", "published", "ended"}]
        BY DEF Init, ServerInit
    <2>4. clock <= Olds + Cardinality(Begun)
        BY <1>2, <2>1
    <2>5. QED
        BY <1>1, <2>1, <2>2, <2>3, <2>4 DEF SendTyped
<1>4. ToggleTyped /\ FeedTyped /\ GetTyped /\ CrossedTyped
    BY DEF Init, ServerInit, ToggleTyped, FeedTyped, GetTyped, CrossedTyped
<1>5. TabTyped
    <2>1. PICK p \in Pages(Latest) : list = Entries(p, reacted) /\ more = Full(p)
        BY DEF Init
    <2>2. p \in Seq(Message)
        <3>1. stored \subseteq Message
            BY <1>3 DEF SendTyped
        <3>2. OlderThan(Latest) \subseteq Message /\ p \in Seq(OlderThan(Latest))
            BY <3>1, PagesAre DEF PageOf
        <3>3. QED
            BY <3>2
    <2>3. list \in Seq(Entry) /\ more \in BOOLEAN
        BY <1>4, <2>1, <2>2, EntriesAre DEF ToggleTyped, Full
    <2>4. drops \in 0..MaxDrops
        BY RoomViewAssumption DEF Init
    <2>5. active \in BOOLEAN /\ loading \in BOOLEAN /\ failed = {}
        BY Zenon DEF Init
    <2>6. QED
        BY <2>3, <2>4, <2>5 DEF TabTyped
<1>6. QED
    BY <1>3, <1>4, <1>5 DEF Typed

LEMMA TypedStep ==
    ASSUME Typed, [Next]_vars
    PROVE  Typed'
<1>1. CASE Next
    <2>1. Track /\ \/ SendStep /\ UNCHANGED <<toggleVars, link, tabVars>>
                   \/ ToggleStep /\ UNCHANGED <<sendVars, link, tabVars>>
                   \/ LinkStep /\ UNCHANGED <<sendVars, toggleVars>>
                   \/ (GetStep \/ ViewStep) /\ UNCHANGED serverVars
        BY <1>1, Steps
    <2>2. SendTyped' /\ ToggleTyped' /\ FeedTyped' /\ TabTyped' /\ GetTyped'
        <3>1. CASE SendStep /\ UNCHANGED <<toggleVars, link, tabVars>>
            <4>1. SendTyped' /\ FeedTyped'
                BY <3>1, SendTypedStep, ServerStepFeed DEF Typed
            <4>2. QED
                BY <3>1, <4>1 DEF toggleVars, tabVars, Typed, ToggleTyped, TabTyped, GetTyped
        <3>2. CASE ToggleStep /\ UNCHANGED <<sendVars, link, tabVars>>
            <4>1. ToggleTyped' /\ FeedTyped'
                BY <3>2, ToggleTypedStep, ServerStepFeed DEF Typed
            <4>2. QED
                BY <3>2, <4>1 DEF sendVars, tabVars, Typed, SendTyped, Begun, TabTyped, GetTyped
        <3>3. CASE LinkStep /\ UNCHANGED <<sendVars, toggleVars>>
            <4>1. FeedTyped' /\ TabTyped' /\ GetTyped'
                BY <3>3, LinkStepFeed, TabStep DEF Typed
            <4>2. QED
                BY <3>3, <4>1 DEF sendVars, toggleVars, Typed, SendTyped, Begun, ToggleTyped
        <3>4. CASE (GetStep \/ ViewStep) /\ UNCHANGED serverVars
            <4>1. TabTyped' /\ GetTyped'
                BY <3>4, TabStep
            <4>2. QED
                BY <3>4, <4>1 DEF serverVars, Typed, SendTyped, Begun, ToggleTyped, FeedTyped
        <3>5. QED
            BY <2>1, <3>1, <3>2, <3>3, <3>4
    <2>3. CrossedTyped'
        <3>1. SendsUnderWay' \subseteq Message
            BY <2>2, UnderWayTyped DEF Message
        <3>2. crossed' \subseteq crossed \cup SendsUnderWay' \cup Message \cup Toggles
            BY <2>1, Marks
        <3>3. QED
            BY <3>1, <3>2 DEF Typed, CrossedTyped
    <2>4. QED
        BY <2>2, <2>3 DEF Typed
<1>2. CASE UNCHANGED vars
    BY <1>2 DEF vars, serverVars, tabVars, Typed, SendTyped, Begun, ToggleTyped, FeedTyped,
                TabTyped, GetTyped, CrossedTyped
<1>3. QED
    BY <1>1, <1>2

(* Every variable keeps its type; that the times of messages stay within   *)
(* the bound of TypeOK takes that the clock is no further than messages    *)
(* were begun.                                                             *)
THEOREM TypeInvariant == Spec => []TypeOK
<1>1. Typed /\ [Next]_vars => Typed'
    BY TypedStep
<1>2. QED
    BY <1>1, TypedInit, TypedIsTypeOK, PTL DEF Spec
-----------------------------------------------------------------------------
LEMMA LoadingStep ==
    ASSUME Typed, LoadingEnds, [Next]_vars
    PROVE  LoadingEnds'
<1>1. CASE UNCHANGED tabVars
    BY <1>1 DEF tabVars, LoadingEnds, Busy
<1>2. ASSUME NEW h \in Gets, UNCHANGED <<loading, failed>>, Only(h),
             get'[h] # Idle, get[h] # Idle => get'[h].kind = get[h].kind
      PROVE  LoadingEnds'
    BY <1>2 DEF LoadingEnds, Busy, Only
<1>3. CASE GetStep
    <2>1. ASSUME NEW g \in Gets, ReadPage(g) PROVE LoadingEnds'
        <3>1. UNCHANGED <<loading, failed>>
            BY <2>1 DEF ReadPage
        <3>2. QED
            BY <1>2, <2>1, <3>1, ReadPageFacts, GetIsNotIdle
    <2>2. ASSUME NEW g \in Gets, ReadReactions(g) PROVE LoadingEnds'
        <3>1. UNCHANGED <<loading, failed>>
            BY <2>2 DEF ReadReactions
        <3>2. QED
            BY <1>2, <2>2, <3>1, ReadReactionsFacts, GetIsNotIdle
    <2>3. ASSUME NEW g \in Gets, Arrive(g) PROVE LoadingEnds'
        <3>1. /\ Only(g) /\ get[g] # Idle /\ get[g].kind \in {"latest", "older"}
            BY <2>3, EndGetFacts, GetIsNotIdle DEF Typed, Get
        <3>2. /\ loading' = IF get[g].kind = "older" THEN FALSE ELSE loading
              /\ failed \ {"latest"} \subseteq failed'
            BY <2>3 DEF Arrive
        <3>3. CASE get[g].kind = "older"
            BY <3>2, <3>3 DEF LoadingEnds
        <3>4. CASE get[g].kind = "latest"
            BY <3>1, <3>2, <3>4 DEF LoadingEnds, Busy, Only
        <3>5. QED
            BY <3>1, <3>3, <3>4
    <2>4. ASSUME NEW g \in Gets, GetFails(g) PROVE LoadingEnds'
        <3>1. /\ Only(g) /\ failed' = failed \cup {get[g].kind} /\ loading' = loading
            BY <2>4, EndGetFacts DEF Typed, GetFails
        <3>2. QED
            BY <3>1 DEF LoadingEnds, Busy, Only
    <2>5. QED
        BY <1>3, <2>1, <2>2, <2>3, <2>4 DEF GetStep
<1>4. <<>> \in Seq(Entry) /\ list \in Seq(Entry) /\ GetTyped
    BY DEF Typed, TabTyped
<1>5. CASE Leave
    BY <1>5 DEF Leave, LoadingEnds, Busy
<1>6. CASE Enter
    BY <1>6 DEF Enter, LoadingEnds
<1>7. CASE ScrollUp
    <2>1. PICK g \in Gets : Asked(g, "older", list)
        BY <1>4, <1>7, AskFacts DEF ScrollUp
    <2>2. g \in Busy' /\ get'[g].kind = "older"
        BY <2>1, GetIsNotIdle DEF Asked, Busy
    <2>3. QED
        BY <2>2 DEF LoadingEnds
<1>8. CASE OnMessage \/ Drop
    BY <1>8 DEF OnMessage, Drop, LoadingEnds, Busy
<1>9. CASE Reopen
    <2>1. UNCHANGED <<loading, failed>>
        BY <1>9 DEF Reopen
    <2>2. CASE active
        <3>1. PICK g \in Gets : Asked(g, "latest", <<>>)
            BY <1>4, <1>9, <2>2, AskFacts DEF Reopen
        <3>2. QED
            BY <1>2, <2>1, <3>1, GetIsNotIdle DEF Asked
    <2>3. CASE ~active
        BY <1>9, <2>3 DEF Reopen, LoadingEnds, Busy
    <2>4. QED
        BY <2>2, <2>3
<1>10. CASE Next
    BY <1>1, <1>3, <1>5, <1>6, <1>7, <1>8, <1>9, <1>10, Steps
       DEF LinkStep, ViewStep, Register
<1>11. QED
    BY <1>1, <1>10 DEF vars

(* While older messages are being loaded, their GET is in progress or has  *)
(* failed: every answer of fetchOlderMessages ends the loading, whatever   *)
(* else is fetched at once.                                                *)
THEOREM LoadingIsOver == Spec => []LoadingEnds
<1>1. Init => LoadingEnds
    BY DEF Init, LoadingEnds
<1>2. Typed /\ LoadingEnds /\ [Next]_vars => (Typed /\ LoadingEnds)'
    BY TypedStep, LoadingStep
<1>3. QED
    BY <1>1, <1>2, TypedInit, PTL DEF Spec
-----------------------------------------------------------------------------
LEMMA Frames ==
    ASSUME [Next]_vars
    PROVE  /\ SendStep \/ UNCHANGED sendVars
           /\ ToggleStep \/ UNCHANGED toggleVars
           /\ LinkStep \/ GetStep \/ ViewStep \/ UNCHANGED tabVars
           /\ SendStep \/ ToggleStep \/ LinkStep \/ UNCHANGED feed
<1>1. CASE Next
    BY <1>1, Steps DEF serverVars, sendVars, toggleVars, tabVars
<1>2. CASE UNCHANGED vars
    BY <1>2 DEF vars, serverVars, sendVars, toggleVars, tabVars
<1>3. QED
    BY <1>1, <1>2

(* A GET in progress is the one that was, or a new one.                    *)
Kept(g) ==
    /\ get[g] # Idle /\ get'[g].kind = get[g].kind /\ get'[g].existing = get[g].existing
    /\ \/ get'[g].at = get[g].at /\ get'[g].page = get[g].page /\ get'[g].by = get[g].by
       \/ ReadPage(g)
       \/ ReadReactions(g)

LEMMA GetsKept ==
    ASSUME Typed, [Next]_vars, NEW g \in Gets, get'[g] # Idle
    PROVE  \/ Kept(g)
           \/ ScrollUp /\ Asked(g, "older", list)
           \/ (Enter \/ (Reopen /\ active)) /\ Asked(g, "latest", <<>>)
<1>1. CASE get'[g] = get[g]
    BY <1>1 DEF Kept
<1>2. <<>> \in Seq(Entry) /\ list \in Seq(Entry) /\ GetTyped
    BY DEF Typed, TabTyped
<1>3. CASE GetStep
    <2>1. PICK h \in Gets : ReadPage(h) \/ ReadReactions(h) \/ Arrive(h) \/ GetFails(h)
        BY <1>3 DEF GetStep
    <2>2. CASE h # g
        <3>1. Only(h)
            BY <2>1, <1>2, ReadPageFacts, ReadReactionsFacts, EndGetFacts
        <3>2. QED
            BY <1>1, <2>2, <3>1 DEF Only
    <2>3. CASE ReadPage(g)
        BY <2>3, ReadPageFacts, GetIsNotIdle DEF Kept
    <2>4. CASE ReadReactions(g)
        BY <2>4, ReadReactionsFacts, GetIsNotIdle DEF Kept
    <2>5. CASE Arrive(g) \/ GetFails(g)
        BY <1>2, <2>5, EndGetFacts
    <2>6. QED
        BY <2>1, <2>2, <2>3, <2>4, <2>5
<1>4. CASE Leave \/ OnMessage \/ Drop
    BY <1>1, <1>4 DEF Leave, OnMessage, Drop
<1>5. CASE Enter
    <2>1. PICK h \in Gets : Asked(h, "latest", <<>>)
        BY <1>2, <1>5, AskFacts DEF Enter
    <2>2. QED
        BY <1>1, <1>5, <2>1 DEF Asked, Only
<1>6. CASE ScrollUp
    <2>1. PICK h \in Gets : Asked(h, "older", list)
        BY <1>2, <1>6, AskFacts DEF ScrollUp
    <2>2. QED
        BY <1>1, <1>6, <2>1 DEF Asked, Only
<1>7. CASE Reopen
    <2>1. CASE active
        <3>1. PICK h \in Gets : Asked(h, "latest", <<>>)
            BY <1>2, <1>7, <2>1, AskFacts DEF Reopen
        <3>2. QED
            BY <1>1, <1>7, <2>1, <3>1 DEF Asked, Only
    <2>2. CASE ~active
        BY <1>1, <1>7, <2>2 DEF Reopen
    <2>3. QED
        BY <2>1, <2>2
<1>8. CASE UNCHANGED tabVars
    BY <1>1, <1>8 DEF tabVars
<1>9. QED
    BY <1>3, <1>4, <1>5, <1>6, <1>7, <1>8, Frames DEF LinkStep, ViewStep, Register

LEMMA ListKept ==
    ASSUME [Next]_vars
    PROVE  \/ UNCHANGED <<list, more>>
           \/ OnMessage
           \/ \E g \in Gets : Arrive(g)
BY Frames DEF LinkStep, GetStep, ViewStep, tabVars, Drop, Reopen, Register, ReadPage,
              ReadReactions, GetFails, Leave, Enter, ScrollUp

(* What arrives was on its way, and what is on its way was published.      *)
LEMMA FeedKept ==
    ASSUME Typed, [Next]_vars, NEW k \in DOMAIN feed'
    PROVE  \/ \E j \in DOMAIN feed : feed'[k] = feed[j]
           \/ \E m \in New : PublishMessage(m) /\ feed'[k] = [type |-> "message.new", id |-> m]
           \/ \E t \in Toggles : /\ PublishReactions(t)
                                 /\ feed'[k] = [type |-> "reaction.update", by |-> snapshot[t]]
<1>1. feed \in Seq(Payload)
    BY DEF Typed, FeedTyped
<1>2. ASSUME NEW n, Publish(n)
      PROVE  (\E j \in DOMAIN feed : feed'[k] = feed[j]) \/ feed'[k] = n
    BY <1>1, <1>2 DEF Publish
<1>3. CASE feed' = feed
    BY <1>3
<1>4. CASE SendStep
    BY <1>2, <1>3, <1>4 DEF SendStep, Flush, PublishMessage, Store, AbortSend
<1>5. CASE ToggleStep
    BY <1>2, <1>3, <1>5 DEF ToggleStep, Look, FlushToggle, ReadBack, PublishReactions,
                            CommitToggle, AbortToggle
<1>6. CASE LinkStep
    <2>1. CASE OnMessage
        <3>1. feed' = Tail(feed) /\ feed # <<>>
            BY <2>1 DEF OnMessage
        <3>2. k + 1 \in DOMAIN feed /\ feed'[k] = feed[k + 1]
            BY <1>1, <3>1
        <3>3. QED
            BY <3>2
    <2>2. CASE Drop
        <3>1. feed' = <<>>
            BY <2>2 DEF Drop
        <3>2. QED
            BY <3>1
    <2>3. QED
        BY <1>3, <1>6, <2>1, <2>2 DEF LinkStep, Reopen, Register
<1>7. QED
    BY <1>3, <1>4, <1>5, <1>6, Frames
-----------------------------------------------------------------------------
(* What is stored, listed or on its way was published, so that its time    *)
(* stands; the top of the screen and of what an older page is put before   *)
(* is a message of the database.                                           *)
Told(m) == m \in Old \/ sending[m] \in {"published", "ended"}

Times ==
    /\ Old \subseteq stored /\ \A m \in stored \cap New : sending[m] = "ended"
    /\ \A i \in DOMAIN list : Told(list[i].id)
    /\ \A k \in DOMAIN feed : feed[k].type = "message.new" => Told(feed[k].id)
    /\ \A g \in Gets : get[g] # Idle =>
          \A i \in DOMAIN get[g].existing : Told(get[g].existing[i].id)

Rooted ==
    /\ list # <<>> /\ list[1].id \in stored
    /\ \A g \in Gets : get[g] # Idle /\ get[g].kind = "older" =>
          get[g].existing # <<>> /\ get[g].existing[1].id \in stored

(* A page has what its GET asked for, but for what came in between.        *)
Sought(g, m) == \/ get[g].kind = "latest"
                \/ created_at[m] < created_at[get[g].existing[1].id]
PageFits(g) ==
    /\ get[g].kind = "latest" => get[g].page # <<>>
    /\ \A i \in DOMAIN get[g].page : /\ get[g].page[i] \in stored
                                     /\ Sought(g, get[g].page[i])
    /\ \A i, j \in DOMAIN get[g].page : i < j =>
          /\ get[g].page[i] # get[g].page[j]
          /\ created_at[get[g].page[i]] <= created_at[get[g].page[j]]
    /\ \A m \in stored \ crossed : Sought(g, m) =>
          \/ \E i \in DOMAIN get[g].page : get[g].page[i] = m
          \/ /\ Full(get[g].page)
             /\ \A i \in DOMAIN get[g].page : created_at[m] <= created_at[get[g].page[i]]
PagesFit == \A g \in Gets : get[g] # Idle /\ get[g].at # "sent" => PageFits(g)

Clean == \A m \in Message \ crossed : /\ Met => m \notin SendsUnderWay
                                      /\ \A g, h \in Busy : g = h

Base == Typed /\ Times /\ Rooted /\ PagesFit /\ Clean

LEMMA StoredIsTold == Times /\ Typed => \A m \in stored : Told(m)
BY DEF Times, Typed, SendTyped, Told, Message

LEMMA SendKept ==
    ASSUME Typed, Times, [Next]_vars
    PROVE  /\ stored \subseteq stored'
           /\ \A m \in Message : Told(m) => Told(m)' /\ created_at'[m] = created_at[m]
           /\ \A m \in stored' \ stored : m \in New /\ Store(m) /\ sending[m] = "published"
           /\ Old \subseteq stored' /\ \A m \in stored' \cap New : sending'[m] = "ended"
<1>1. CASE UNCHANGED sendVars
    BY <1>1 DEF sendVars, Told, Times
<1>2. ASSUME NEW m \in New, Flush(m) \/ PublishMessage(m) \/ Store(m) \/ AbortSend(m)
      PROVE  /\ stored \subseteq stored'
             /\ \A x \in Message : Told(x) => Told(x)' /\ created_at'[x] = created_at[x]
             /\ \A x \in stored' \ stored : x \in New /\ Store(x) /\ sending[x] = "published"
             /\ Old \subseteq stored' /\ \A x \in stored' \cap New : sending'[x] = "ended"
    <2>1. m \notin Old /\ Old \subseteq stored
        BY MessageFacts DEF Times
    <2>2. CASE Flush(m)
        <3>1. /\ sending[m] = "new" /\ sending' = [sending EXCEPT ![m] = "flushed"]
              /\ stored' = stored /\ \E now : created_at' = [created_at EXCEPT ![m] = now]
            BY <2>2 DEF Flush, SendTo
        <3>2. ~Told(m) /\ m \notin stored
            BY <2>1, <3>1 DEF Told, Times
        <3>3. \A x \in Message \ {m} : /\ created_at'[x] = created_at[x]
                                       /\ x \in New => sending'[x] = sending[x]
            BY <3>1 DEF Typed, SendTyped
        <3>4. QED
            BY <2>1, <3>1, <3>2, <3>3 DEF Told, Times
    <2>3. CASE PublishMessage(m) \/ Store(m) \/ AbortSend(m)
        <3>1. /\ created_at' = created_at
              /\ sending[m] # "ended" /\ \A x \in New \ {m} : sending'[x] = sending[x]
              /\ sending'[m] \in {"published", "ended"}
            BY <2>3 DEF PublishMessage, Store, AbortSend, SendTo, Typed, SendTyped
        <3>2. \A x \in Message : Told(x) => Told(x)'
            BY <3>1 DEF Told, Message
        <3>3. CASE stored' = stored
            BY <2>1, <3>1, <3>2, <3>3 DEF Times
        <3>4. CASE Store(m)
            <4>1. stored' = stored \cup {m} /\ sending[m] = "published" /\ sending'[m] = "ended"
                BY <3>4 DEF Store, SendTo, Typed, SendTyped
            <4>2. QED
                BY <2>1, <3>1, <3>2, <3>4, <4>1 DEF Times
        <3>5. QED
            BY <2>3, <3>3, <3>4 DEF PublishMessage, AbortSend
    <2>4. QED
        BY <1>2, <2>2, <2>3
<1>3. QED
    BY <1>1, <1>2, Frames DEF SendStep

LEMMA PublishTells ==
    ASSUME Typed, NEW m \in New, PublishMessage(m)
    PROVE  Told(m)'
BY DEF PublishMessage, SendTo, Told, Typed, SendTyped

(* The entries of the list an answer leaves.                               *)
LEMMA ArriveList ==
    ASSUME Typed, PagesFit, NEW g \in Gets, Arrive(g)
    PROVE  /\ get[g] \in Get /\ get[g] # Idle /\ get[g].at = "read" /\ PageFits(g)
           /\ \E p \in Seq(Message), e \in Seq(Entry) :
                /\ p = get[g].page
                /\ get[g].kind = "latest" => e = <<>>
                /\ get[g].kind # "latest" => e = get[g].existing
                /\ list' \in Seq(Entry) /\ Len(list') = Len(p) + Len(e) /\ more' = Full(p)
                /\ \A i \in 1..Len(p) : /\ list'[i].id = p[i]
                                        /\ p[i] = Target => list'[i].by = get[g].by
                /\ \A i \in 1..Len(e) : list'[Len(p) + i] = e[i]
<1>1. get[g] \in Get /\ get[g] # Idle /\ get[g].at = "read" /\ PageFits(g)
    BY EndGetFacts, GetIsNotIdle DEF Typed, PagesFit, Arrive
<1>2. PICK r \in Get : r = get[g]
    BY <1>1
<1>3. PICK p \in Seq(Message) : p = r.page
    BY DEF Get
<1>4. r.by \in SUBSET Users /\ r.existing \in Seq(Entry)
    BY DEF Get
<1>5. PICK e \in Seq(Entry) : /\ r.kind = "latest" => e = <<>>
                              /\ r.kind # "latest" => e = r.existing
    <2>1. <<>> \in Seq(Entry)
        OBVIOUS
    <2>2. CASE r.kind = "latest"
        BY <2>1, <2>2, Zenon
    <2>3. CASE r.kind # "latest"
        BY <1>4, <2>3, Zenon
    <2>4. QED
        BY <2>2, <2>3
<1>6. PICK n \in Seq(Entry) :
        /\ n = Entries(p, r.by) /\ Len(n) = Len(p)
        /\ \A i \in 1..Len(p) : n[i].id = p[i] /\ (p[i] = Target => n[i].by = r.by)
    BY <1>4, EntriesAre
<1>7. list' = n \o e /\ more' = Full(p)
    <2>1. /\ list' = IF r.kind = "latest" THEN n ELSE n \o r.existing
          /\ more' = Full(p)
        BY <1>2, <1>3, <1>6 DEF Arrive
    <2>2. CASE r.kind = "latest"
        BY <1>5, <2>1, <2>2
    <2>3. CASE r.kind # "latest"
        BY <1>5, <2>1, <2>3
    <2>4. QED
        BY <2>2, <2>3
<1>8. /\ list' \in Seq(Entry) /\ Len(list') = Len(p) + Len(e)
      /\ \A i \in 1..Len(p) : list'[i] = n[i]
      /\ \A i \in 1..Len(e) : list'[Len(p) + i] = e[i]
    <2>1. PICK l : l = n \o e
        OBVIOUS
    <2>2. /\ l \in Seq(Entry) /\ Len(l) = Len(n) + Len(e)
          /\ \A i \in 1..Len(n) : l[i] = n[i]
          /\ \A i \in 1..Len(e) : l[Len(n) + i] = e[i]
        BY <2>1
    <2>3. QED
        BY <1>6, <1>7, <2>1, <2>2
<1>9. \A i \in 1..Len(p) : list'[i].id = p[i] /\ (p[i] = Target => list'[i].by = r.by)
    BY <1>6, <1>8
<1>10. QED
    BY <1>1, <1>2, <1>3, <1>5, <1>7, <1>8, <1>9

LEMMA MessageList ==
    ASSUME Typed, OnMessage
    PROVE  /\ feed' \in Seq(Payload) /\ Len(feed) = Len(feed') + 1 /\ list' \in Seq(Entry)
           /\ \A k \in 1..Len(feed') : feed'[k] = feed[k + 1]
           /\ \E n \in Payload :
                /\ n = feed[1]
                /\ \/ /\ n.type = "message.new" /\ n.id \in New
                      /\ Len(list') = Len(list) + 1 /\ list'[Len(list) + 1].id = n.id
                      /\ \A i \in 1..Len(list) : list'[i] = list[i]
                   \/ /\ n.type = "reaction.update" /\ n.by \in SUBSET Users
                      /\ Len(list') = Len(list)
                      /\ \A i \in 1..Len(list) : /\ list'[i].id = list[i].id
                                                 /\ list[i].id = Target => list'[i].by = n.by
<1>1. list \in Seq(Entry) /\ feed \in Seq(Payload) /\ feed # <<>> /\ feed' = Tail(feed)
    BY DEF Typed, TabTyped, FeedTyped, OnMessage
<1>2. PICK n \in Payload : n = feed[1] /\ n = Head(feed)
    BY <1>1
<1>3. list' = Shown(list, n)
    BY <1>2 DEF OnMessage
<1>4. /\ feed' \in Seq(Payload) /\ Len(feed) = Len(feed') + 1
      /\ \A k \in 1..Len(feed') : feed'[k] = feed[k + 1]
    BY <1>1
<1>5. CASE n.type = "message.new"
    <2>1. PICK x \in Entry : x = [id |-> n.id, by |-> {}]
        <3>1. n.id \in Message /\ {} \in SUBSET Users
            BY <1>5 DEF Payload, Message
        <3>2. [id |-> n.id, by |-> {}] \in Entry
            BY <3>1 DEF Entry
        <3>3. QED
            BY <3>2
    <2>2. n.id \in New /\ list' = Append(list, x) /\ x.id = n.id
        BY <1>1, <1>3, <1>5, <2>1, NewShown
    <2>3. list' \in Seq(Entry) /\ Len(list') = Len(list) + 1 /\ list'[Len(list) + 1] = x
          /\ \A i \in 1..Len(list) : list'[i] = list[i]
        BY <1>1, <2>2
    <2>4. QED
        BY <1>2, <1>4, <1>5, <2>2, <2>3
<1>6. CASE n.type = "reaction.update"
    BY <1>1, <1>2, <1>3, <1>4, <1>6, UpdateShown
<1>7. QED
    BY <1>5, <1>6 DEF Payload

LEMMA Ids ==
    Typed => /\ \A i \in DOMAIN list : list[i].id \in Message
             /\ \A k \in DOMAIN feed : feed[k].type = "message.new" => feed[k].id \in New
             /\ \A g \in Gets : get[g] # Idle =>
                   /\ get[g] \in Get
                   /\ \A i \in DOMAIN get[g].existing : get[g].existing[i].id \in Message
<1> SUFFICES ASSUME Typed
             PROVE  /\ \A i \in DOMAIN list : list[i].id \in Message
                    /\ \A k \in DOMAIN feed : feed[k].type = "message.new" => feed[k].id \in New
                    /\ \A g \in Gets : get[g] # Idle =>
                          /\ get[g] \in Get
                          /\ \A i \in DOMAIN get[g].existing : get[g].existing[i].id \in Message
    OBVIOUS
<1>1. ASSUME NEW l \in Seq(Entry), NEW i \in DOMAIN l PROVE l[i].id \in Message
    <2>1. l[i] \in Entry
        OBVIOUS
    <2>2. QED
        BY <2>1 DEF Entry
<1>2. ASSUME NEW g \in Gets, get[g] # Idle
      PROVE  get[g] \in Get /\ get[g].existing \in Seq(Entry)
    BY <1>2 DEF Typed, GetTyped, Get
<1>3. ASSUME NEW k \in DOMAIN feed, feed[k].type = "message.new" PROVE feed[k].id \in New
    <2>1. feed[k] \in Payload
        BY <1>3 DEF Typed, FeedTyped
    <2>2. QED
        BY <1>3, <2>1 DEF Payload
<1>4. list \in Seq(Entry)
    BY DEF Typed, TabTyped
<1>5. QED
    BY <1>1, <1>2, <1>3, <1>4

StaysTold(m) == m \in Old \/ sending'[m] \in {"published", "ended"}

LEMMA TimesStep ==
    ASSUME Typed, Times, PagesFit, [Next]_vars
    PROVE  Times'
<1>1. /\ Old \subseteq stored' /\ \A m \in stored' \cap New : sending'[m] = "ended"
      /\ \A m \in Message : Told(m) => StaysTold(m)
    BY SendKept DEF Told, StaysTold
<1>2. /\ \A i \in DOMAIN list : list[i].id \in Message /\ StaysTold(list[i].id)
      /\ \A k \in DOMAIN feed : feed[k].type = "message.new" =>
            feed[k].id \in New /\ StaysTold(feed[k].id)
      /\ \A g \in Gets : get[g] # Idle =>
            \A i \in DOMAIN get[g].existing : StaysTold(get[g].existing[i].id)
    <2>1. \A i \in DOMAIN list : list[i].id \in Message /\ StaysTold(list[i].id)
        <3>1. ASSUME NEW i \in DOMAIN list PROVE list[i].id \in Message /\ StaysTold(list[i].id)
            <4>1. PICK m \in Message : m = list[i].id
                BY Ids
            <4>2. Told(m)
                BY <4>1 DEF Times
            <4>3. QED
                BY <1>1, <4>1, <4>2
        <3>2. QED
            BY <3>1
    <2>2. QED
        <3>1. \A k \in DOMAIN feed : feed[k].type = "message.new" =>
                feed[k].id \in New /\ StaysTold(feed[k].id)
            BY <1>1, Ids DEF Times, Message
        <3>2. \A g \in Gets : get[g] # Idle =>
                \A i \in DOMAIN get[g].existing : StaysTold(get[g].existing[i].id)
            BY <1>1, Ids DEF Times
        <3>3. QED
            BY <2>1, <3>1, <3>2
<1>3. ASSUME NEW i \in DOMAIN list' PROVE StaysTold(list'[i].id)
    <2>1. CASE list' = list
        BY <1>2, <2>1
    <2>2. CASE OnMessage
        <3>1. PICK n \in Payload :
                /\ n = feed[1] /\ list' \in Seq(Entry) /\ list \in Seq(Entry)
                /\ feed \in Seq(Payload) /\ Len(feed) > 0
                /\ \/ /\ n.type = "message.new" /\ n.id \in New
                      /\ Len(list') = Len(list) + 1 /\ list'[Len(list) + 1].id = n.id
                      /\ \A j \in 1..Len(list) : list'[j] = list[j]
                   \/ /\ n.type = "reaction.update"
                      /\ Len(list') = Len(list)
                      /\ \A j \in 1..Len(list) : list'[j].id = list[j].id
            BY <2>2, MessageList DEF Typed, TabTyped, FeedTyped
        <3>2. CASE i \in 1..Len(list)
            BY <1>2, <3>1, <3>2
        <3>3. CASE i \notin 1..Len(list)
            <4>1. n.type = "message.new" /\ list'[i].id = n.id
                BY <3>1, <3>3
            <4>2. 1 \in DOMAIN feed
                BY <3>1
            <4>3. QED
                BY <1>2, <3>1, <4>1, <4>2
        <3>4. QED
            BY <3>2, <3>3
    <2>3. ASSUME NEW g \in Gets, Arrive(g) PROVE StaysTold(list'[i].id)
        <3>1. get[g] # Idle /\ PageFits(g)
            BY <2>3, ArriveList
        <3>2. PICK p \in Seq(Message), e \in Seq(Entry) :
                /\ p = get[g].page
                /\ get[g].kind = "latest" => e = <<>>
                /\ get[g].kind # "latest" => e = get[g].existing
                /\ list' \in Seq(Entry) /\ Len(list') = Len(p) + Len(e)
                /\ \A j \in 1..Len(p) : list'[j].id = p[j]
                /\ \A j \in 1..Len(e) : list'[Len(p) + j] = e[j]
            BY <2>3, ArriveList
        <3>3. CASE i \in 1..Len(p)
            <4>1. p[i] \in stored /\ p[i] \in Message
                BY <3>1, <3>2, <3>3 DEF PageFits
            <4>2. StaysTold(p[i])
                BY <1>1, <4>1, StoredIsTold
            <4>3. QED
                BY <3>2, <3>3, <4>2
        <3>4. CASE i \notin 1..Len(p)
            <4>1. PICK j \in 1..Len(e) : i = Len(p) + j
                <5>1. i \in 1..(Len(p) + Len(e)) /\ Len(p) \in Nat /\ Len(e) \in Nat
                    BY <3>2
                <5>2. i - Len(p) \in 1..Len(e) /\ i = Len(p) + (i - Len(p))
                    BY <3>4, <5>1
                <5>3. QED
                    BY <5>2
            <4>2. e = get[g].existing /\ list'[i] = e[j] /\ j \in DOMAIN e
                BY <3>2, <4>1
            <4>3. QED
                BY <1>2, <3>1, <4>2
        <3>5. QED
            BY <3>3, <3>4
    <2>4. QED
        BY <2>1, <2>2, <2>3, ListKept
<1>4. ASSUME NEW k \in DOMAIN feed', feed'[k].type = "message.new" PROVE StaysTold(feed'[k].id)
    <2>1. CASE \E j \in DOMAIN feed : feed'[k] = feed[j]
        BY <1>2, <1>4, <2>1
    <2>2. ASSUME NEW m \in New, PublishMessage(m), feed'[k] = [type |-> "message.new", id |-> m]
          PROVE  StaysTold(feed'[k].id)
        <3>1. feed'[k].id = m /\ StaysTold(m)
            BY <2>2, PublishTells DEF Told, StaysTold
        <3>2. QED
            BY <3>1
    <2>3. QED
        BY <1>4, <2>1, <2>2, FeedKept
<1>5. ASSUME NEW g \in Gets, get'[g] # Idle, NEW i \in DOMAIN get'[g].existing
      PROVE  StaysTold(get'[g].existing[i].id)
    BY <1>2, <1>5, GetsKept DEF Kept, Asked
<1>6. QED
    BY <1>1, <1>3, <1>4, <1>5 DEF Times, Told, StaysTold

LEMMA RootedStep ==
    ASSUME Typed, Times, Rooted, PagesFit, [Next]_vars
    PROVE  Rooted'
<1>1. stored \subseteq stored' /\ list \in Seq(Entry) /\ list # <<>>
    BY SendKept DEF Typed, TabTyped, Rooted
<1>2. list' # <<>> /\ list'[1].id \in stored'
    <2>1. CASE list' = list
        BY <1>1, <2>1 DEF Rooted
    <2>2. CASE OnMessage
        <3>1. list' \in Seq(Entry) /\ Len(list') > 0 /\ list'[1].id = list[1].id
            <4>1. list' \in Seq(Entry) /\ Len(list') \in {Len(list), Len(list) + 1}
                  /\ \A i \in 1..Len(list) : list'[i].id = list[i].id
                BY <2>2, MessageList
            <4>2. Len(list) \in Nat \ {0}
                BY <1>1
            <4>3. QED
                BY <4>1, <4>2
        <3>2. QED
            BY <1>1, <3>1 DEF Rooted
    <2>3. ASSUME NEW g \in Gets, Arrive(g) PROVE list' # <<>> /\ list'[1].id \in stored'
        <3>1. get[g] \in Get /\ get[g] # Idle /\ PageFits(g)
            BY <2>3, ArriveList
        <3>2. PICK p \in Seq(Message), e \in Seq(Entry) :
                /\ p = get[g].page
                /\ get[g].kind = "latest" => e = <<>>
                /\ get[g].kind # "latest" => e = get[g].existing
                /\ list' \in Seq(Entry) /\ Len(list') = Len(p) + Len(e)
                /\ \A j \in 1..Len(p) : list'[j].id = p[j]
                /\ \A j \in 1..Len(e) : list'[Len(p) + j] = e[j]
            BY <2>3, ArriveList
        <3>3. CASE Len(p) > 0
            <4>1. 1 \in DOMAIN p /\ Len(list') > 0
                BY <3>2, <3>3
            <4>2. list'[1].id = p[1] /\ p[1] \in stored
                BY <3>1, <3>2, <4>1 DEF PageFits
            <4>3. QED
                BY <1>1, <3>2, <4>1, <4>2
        <3>4. CASE Len(p) = 0
            <4>1. p = <<>> /\ get[g].kind = "older"
                BY <3>1, <3>2, <3>4 DEF PageFits, Get
            <4>2. e # <<>> /\ e[1].id \in stored
                BY <3>1, <3>2, <4>1 DEF Rooted
            <4>3. Len(list') > 0 /\ list'[1] = e[1]
                BY <3>2, <3>4, <4>2
            <4>4. QED
                BY <1>1, <3>2, <4>2, <4>3
        <3>5. QED
            BY <3>2, <3>3, <3>4
    <2>4. QED
        BY <2>1, <2>2, <2>3, ListKept
<1>3. ASSUME NEW g \in Gets, get'[g] # Idle, get'[g].kind = "older"
      PROVE  get'[g].existing # <<>> /\ get'[g].existing[1].id \in stored'
    <2>1. CASE Kept(g)
        BY <1>1, <1>3, <2>1 DEF Kept, Rooted
    <2>2. CASE Asked(g, "older", list)
        BY <1>1, <2>2 DEF Asked, Rooted
    <2>3. QED
        BY <1>3, <2>1, <2>2, GetsKept DEF Asked
<1>4. QED
    BY <1>2, <1>3 DEF Rooted

LEMMA MarksKept ==
    ASSUME Clean, [Next]_vars
    PROVE  /\ Clean' /\ (Busy # {} => crossed \subseteq crossed')
           /\ crossed \subseteq crossed' \/ Alone
<1>1. CASE Next
    <2>1. Track
        BY <1>1, Steps
    <2>2. Clean'
        BY <2>1, Marks DEF Clean
    <2>3. QED
        BY <2>1, <2>2, Marks DEF Alone
<1>2. CASE UNCHANGED vars
    BY <1>2 DEF vars, serverVars, tabVars, Clean, Met, Busy, SendsUnderWay, Coming
<1>3. QED
    BY <1>1, <1>2

(* What comes into the database while a GET is in progress is crossed.     *)
LEMMA StoredWhileBusy ==
    ASSUME Base, [Next]_vars, Busy # {}, NEW m \in stored' \ crossed'
    PROVE  m \in stored \ crossed
<1>1. m \notin crossed
    BY MarksKept DEF Base
<1>2. CASE m \notin stored
    <2>1. m \in New /\ sending[m] = "published"
        BY <1>2, SendKept DEF Base
    <2>2. m \in SendsUnderWay /\ m \in Message
        BY <2>1 DEF SendsUnderWay, Message
    <2>3. QED
        BY <1>1, <2>2 DEF Base, Clean, Met
<1>3. QED
    BY <1>1, <1>2

LEMMA PageFitsKept ==
    ASSUME Base, [Next]_vars, NEW g \in Gets, get[g] # Idle, PageFits(g),
           get'[g].kind = get[g].kind, get'[g].existing = get[g].existing,
           get'[g].page = get[g].page
    PROVE  PageFits(g)'
<1>1. Busy # {} /\ get[g] \in Get /\ get[g].kind \in {"latest", "older"}
    BY Ids DEF Busy, Base, Get
<1>2. stored \subseteq stored' /\ \A m \in stored : created_at'[m] = created_at[m]
    BY SendKept, StoredIsTold DEF Base, Typed, SendTyped
<1>3. \A m \in stored : Sought(g, m)' <=> Sought(g, m)
    <2>1. CASE get[g].kind = "latest"
        BY <2>1 DEF Sought
    <2>2. CASE get[g].kind = "older"
        <3>1. get[g].existing[1].id \in stored
            BY <2>2 DEF Base, Rooted
        <3>2. QED
            BY <1>2, <2>2, <3>1 DEF Sought
    <2>3. QED
        BY <1>1, <2>1, <2>2
<1>4. PICK p \in Seq(Message) : p = get[g].page /\ p = get'[g].page
    BY <1>1 DEF Get
<1>5. \A i \in DOMAIN p : p[i] \in stored /\ Sought(g, p[i])
    BY <1>4 DEF PageFits
<1>6. \A i \in DOMAIN p : p[i] \in stored' /\ Sought(g, p[i])'
    BY <1>2, <1>3, <1>5
<1>7. \A m \in stored' \ crossed' : m \in stored \ crossed
    BY <1>1, StoredWhileBusy
<1>8. Full(p)' = Full(p)
    BY DEF Full
<1>9. QED
    BY <1>2, <1>3, <1>4, <1>5, <1>6, <1>7, <1>8 DEF PageFits, Full

LEMMA ReadPageFits ==
    ASSUME Base, NEW g \in Gets, ReadPage(g)
    PROVE  PageFits(g)'
<1>1. /\ get[g] \in Get /\ get'[g] \in Get
      /\ get'[g].kind = get[g].kind /\ get'[g].existing = get[g].existing
    BY ReadPageFacts DEF Base
<1>2. PICK m : m = IF get[g].kind = "latest" THEN Latest ELSE get[g].existing[1].id
    OBVIOUS
<1>3. PICK p : p = get'[g].page
    OBVIOUS
<1>4. p \in Pages(m) /\ stored \subseteq Message
    BY <1>2, <1>3, ReadPageFacts DEF Base, Typed, SendTyped
<1>5. OlderThan(m) \subseteq stored /\ PageOf(p, OlderThan(m))
    BY <1>4, PagesAre
<1>6. \A x : x \in OlderThan(m) <=> x \in stored /\ Sought(g, x)
    <2>1. CASE get[g].kind = "latest"
        BY <1>2, <1>4, <2>1, LatestIsAll DEF Sought
    <2>2. CASE get[g].kind = "older"
        <3>1. m = get[g].existing[1].id /\ m \in stored /\ m # Latest
            BY <1>1, <1>2, <1>4, <2>2, GetIsNotIdle, MessageFacts DEF Base, Rooted, Latest
        <3>2. OlderThan(m) = {x \in stored : created_at[x] < created_at[m]}
            BY <3>1 DEF OlderThan
        <3>3. QED
            BY <2>2, <3>1, <3>2 DEF Sought
    <2>3. QED
        BY <1>1, <2>1, <2>2 DEF Get
<1>7. UNCHANGED <<stored, created_at>>
    BY DEF ReadPage, serverVars
<1>8. \A x : Sought(g, x)' <=> Sought(g, x)
    BY <1>1, <1>7 DEF Sought
<1>9. /\ get[g].kind = "latest" => p # <<>>
      /\ \A i \in DOMAIN p : p[i] \in stored /\ Sought(g, p[i])
      /\ \A i, j \in DOMAIN p : i < j =>
            p[i] # p[j] /\ created_at[p[i]] <= created_at[p[j]]
      /\ \A x \in stored : Sought(g, x) =>
            \/ \E i \in DOMAIN p : p[i] = x
            \/ Full(p) /\ \A i \in DOMAIN p : created_at[x] <= created_at[p[i]]
    <2>1. get[g].kind = "latest" => OlderThan(m) # {}
        BY <1>2, <1>4, LatestIsAll, MessagesAssumption DEF Base, Times
    <2>2. p \in Seq(OlderThan(m))
        BY <1>5 DEF PageOf
    <2>3. \A i \in DOMAIN p : p[i] \in OlderThan(m)
        BY <2>2
    <2>4. QED
        BY <1>5, <1>6, <2>1, <2>3 DEF PageOf
<1>10. \A i \in DOMAIN p : p[i] \in stored' /\ Sought(g, p[i])'
    BY <1>7, <1>8, <1>9
<1>11. QED
    BY <1>1, <1>3, <1>7, <1>8, <1>9, <1>10 DEF PageFits, Full

LEMMA PagesFitStep ==
    ASSUME Base, [Next]_vars
    PROVE  PagesFit'
<1> SUFFICES ASSUME NEW g \in Gets, get'[g] # Idle, get'[g].at # "sent"
             PROVE  PageFits(g)'
    BY DEF PagesFit
<1>1. CASE Kept(g)
    <2>1. CASE ReadPage(g)
        BY <2>1, ReadPageFits
    <2>2. CASE ~ReadPage(g)
        <3>1. get'[g].page = get[g].page /\ get[g].at # "sent"
            BY <1>1, <2>2, ReadReactionsFacts DEF Kept, Base
        <3>2. PageFits(g) /\ get[g] # Idle
            BY <1>1, <3>1 DEF Kept, Base, PagesFit
        <3>3. QED
            BY <1>1, <3>1, <3>2, PageFitsKept DEF Kept
    <2>3. QED
        BY <2>1, <2>2
<1>2. QED
    BY <1>1, GetsKept DEF Asked, Base

LEMMA BaseStep ==
    ASSUME Base, [Next]_vars
    PROVE  Base'
BY TypedStep, TimesStep, RootedStep, PagesFitStep, MarksKept DEF Base

LEMMA BaseInit == Init => Base
<1> SUFFICES ASSUME Init PROVE Base
    OBVIOUS
<1>1. Typed
    BY TypedInit
<1>2. PICK p \in Pages(Latest) : list = Entries(p, reacted)
    BY DEF Init
<1>3. stored = Old /\ stored \subseteq Message /\ OlderThan(Latest) = Old /\ Old # {}
    BY LatestIsAll, MessagesAssumption DEF Init, ServerInit, Message
<1>4. p \in Seq(Old) /\ p # <<>> /\ p \in Seq(Message)
    BY <1>2, <1>3, PagesAre DEF PageOf, Message
<1>5. list \in Seq(Entry) /\ Len(list) = Len(p) /\ \A i \in 1..Len(p) : list[i].id = p[i]
    BY <1>1, <1>2, <1>4, EntriesAre DEF Typed, ToggleTyped
<1>6. \A g \in Gets : get[g] = Idle
    BY DEF Init
<1>7. \A i \in DOMAIN list : list[i].id \in Old
    BY <1>4, <1>5
<1>8. list # <<>> /\ list[1].id \in Old
    BY <1>4, <1>5, <1>7
<1>9. feed = <<>> /\ link = "up" /\ \A m \in New : sending[m] = "new"
    BY DEF Init, ServerInit
<1>10. Times
    BY <1>3, <1>6, <1>7, <1>9, MessageFacts DEF Times, Told
<1>11. Rooted /\ PagesFit
    BY <1>3, <1>6, <1>8 DEF Rooted, PagesFit
<1>12. Clean
    BY <1>6, <1>9 DEF Clean, Busy, Met
<1>13. QED
    BY <1>1, <1>10, <1>11, <1>12 DEF Base
-----------------------------------------------------------------------------
(* The tab is up to date, and what is there then of a message that no GET  *)
(* met: it is listed or on its way once, from the top of the screen on,    *)
(* and the GET of an older page began with a part of the list after which  *)
(* the message did not come.                                               *)
Current == /\ active /\ link # "down" /\ "latest" \notin failed
           /\ \A g \in Busy : get[g].kind # "latest"

OnScreen(m) == \E i \in DOMAIN list : list[i].id = m
IsNews(k, m) == feed[k].type = "message.new" /\ feed[k].id = m
OnItsWay(m) == \E k \in DOMAIN feed : IsNews(k, m)
Top == created_at[list[1].id]

Once(m) ==
    /\ \A i, j \in DOMAIN list : list[i].id = m /\ list[j].id = m => i = j
    /\ \A i, j \in DOMAIN feed : IsNews(i, m) /\ IsNews(j, m) => i = j
    /\ ~(OnScreen(m) /\ OnItsWay(m))
Below(m) ==
    /\ \/ OnScreen(m) \/ OnItsWay(m)
       \/ m \in New /\ sending[m] \in {"flushed", "published"}
       => Top <= created_at[m]
    /\ ~more /\ m \in stored => Top <= created_at[m]
Reached(m) ==
    /\ m \in New /\ sending[m] = "published" => OnScreen(m) \/ OnItsWay(m)
    /\ m \in stored \ Tied /\ Top < created_at[m] => OnScreen(m) \/ OnItsWay(m)
Continues(m) ==
    \A g \in Busy : LET e == get[g].existing IN
        /\ Len(e) <= Len(list) /\ \A i \in 1..Len(e) : e[i].id = list[i].id
        /\ \A i \in DOMAIN list : Len(e) < i => list[i].id # m

Fine(m) == Once(m) /\ Below(m) /\ Reached(m) /\ Continues(m)
AllFine == Current => \A m \in Message \ crossed : Fine(m)

LEMMA GetEnds ==
    ASSUME Typed, [Next]_vars, NEW g \in Gets, get[g] # Idle, get'[g] = Idle
    PROVE  Arrive(g) \/ GetFails(g)
<1>1. CASE get' = get
    BY <1>1
<1>2. <<>> \in Seq(Entry) /\ list \in Seq(Entry) /\ GetTyped
    BY DEF Typed, TabTyped
<1>3. ASSUME NEW h \in Gets, \/ Asked(h, "latest", <<>>) \/ Asked(h, "older", list) PROVE FALSE
    BY <1>3, GetIsNotIdle DEF Asked, Only
<1>4. CASE GetStep
    <2>1. PICK h \in Gets : ReadPage(h) \/ ReadReactions(h) \/ Arrive(h) \/ GetFails(h)
        BY <1>4 DEF GetStep
    <2>2. CASE h # g
        <3>1. Only(h)
            BY <2>1, <1>2, ReadPageFacts, ReadReactionsFacts, EndGetFacts
        <3>2. QED
            BY <2>2, <3>1 DEF Only
    <2>3. CASE ReadPage(g) \/ ReadReactions(g)
        BY <2>3, ReadPageFacts, ReadReactionsFacts, GetIsNotIdle
    <2>4. QED
        BY <2>1, <2>2, <2>3
<1>5. CASE Leave \/ OnMessage \/ Drop
    BY <1>1, <1>5 DEF Leave, OnMessage, Drop
<1>6. CASE Enter
    BY <1>2, <1>3, <1>6, AskFacts DEF Enter
<1>7. CASE ScrollUp
    BY <1>2, <1>3, <1>7, AskFacts DEF ScrollUp
<1>8. CASE Reopen
    BY <1>1, <1>2, <1>3, <1>8, AskFacts DEF Reopen
<1>9. CASE UNCHANGED tabVars
    BY <1>1, <1>9 DEF tabVars
<1>10. QED
    BY <1>4, <1>5, <1>6, <1>7, <1>8, <1>9, Frames DEF LinkStep, ViewStep, Register

LEMMA AsksLatest ==
    ASSUME Typed, Enter \/ (Reopen /\ active)
    PROVE  ~Current'
<1>1. <<>> \in Seq(Entry) /\ GetTyped
    BY DEF Typed
<1>2. PICK g \in Gets : Asked(g, "latest", <<>>)
    BY <1>1, AskFacts DEF Enter, Reopen
<1>3. QED
    BY <1>2, GetIsNotIdle DEF Asked, Current, Busy

(* The tab comes up to date by the answer with the newest page only.       *)
LEMMA Becomes ==
    ASSUME Base, [Next]_vars, Current'
    PROVE  /\ crossed \subseteq crossed'
           /\ \/ Current
              \/ \E g \in Gets : Arrive(g) /\ get[g].kind = "latest"
<1>1. crossed \subseteq crossed'
    <2>1. ~Alone
        BY DEF Alone, Current, Busy
    <2>2. QED
        BY <2>1, MarksKept DEF Base
<1>2. ASSUME \A g \in Gets : Arrive(g) => get[g].kind # "latest"
      PROVE  Current
    <2>1. Typed /\ ~(Enter \/ (Reopen /\ active))
        BY AsksLatest DEF Base
    <2>2. \A g \in Busy : get[g].kind # "latest"
        <3>1. SUFFICES ASSUME NEW g \in Gets, get[g] # Idle, get[g].kind = "latest"
                       PROVE  FALSE
            BY DEF Busy
        <3>2. CASE get'[g] # Idle
            BY <2>1, <3>1, <3>2, GetsKept DEF Kept, Asked, Current, Busy
        <3>3. CASE get'[g] = Idle
            <4>1. GetFails(g)
                BY <1>2, <2>1, <3>1, <3>3, GetEnds
            <4>2. QED
                BY <3>1, <4>1 DEF GetFails, Current
        <3>4. QED
            BY <3>2, <3>3
    <2>3. active /\ link # "down" /\ "latest" \notin failed
        <3>1. CASE UNCHANGED <<active, link, failed>>
            BY <3>1 DEF Current
        <3>2. CASE LinkStep
            BY <2>1, <3>2 DEF LinkStep, OnMessage, Drop, Reopen, Register, tabVars, Current
        <3>3. CASE ViewStep
            BY <2>1, <3>3 DEF ViewStep, Leave, ScrollUp, serverVars, Current
        <3>4. ASSUME NEW g \in Gets, \/ ReadPage(g) \/ ReadReactions(g) \/ Arrive(g)
                                     \/ GetFails(g)
              PROVE  active /\ link # "down" /\ "latest" \notin failed
            BY <1>2, <3>4 DEF ReadPage, ReadReactions, Arrive, GetFails, serverVars, Current
        <3>5. CASE UNCHANGED vars
            BY <3>1, <3>5 DEF vars, serverVars, tabVars
        <3>6. QED
            BY <3>1, <3>2, <3>3, <3>4, <3>5, Steps DEF GetStep, tabVars
    <2>4. QED
        BY <2>2, <2>3 DEF Current
<1>3. QED
    BY <1>1, <1>2

LEMMA NotUnderWay ==
    ASSUME Base, Met, NEW m \in Message \ crossed
    PROVE  ~OnItsWay(m) /\ (m \in New => sending[m] \notin {"flushed", "published"})
<1>1. m \notin SendsUnderWay
    BY DEF Base, Clean
<1>2. QED
    BY <1>1 DEF SendsUnderWay, OnItsWay, IsNews, Coming

(* What is the same in both cases of an answer                             *)
LEMMA ArriveFrame ==
    ASSUME Base, [Next]_vars, NEW g \in Gets, Arrive(g), NEW m \in Message \ crossed'
    PROVE  /\ m \notin crossed /\ Busy' = {} /\ ~OnItsWay(m) /\ ~OnItsWay(m)'
           /\ m \in New => sending[m] \notin {"flushed", "published"}
           /\ UNCHANGED <<stored, created_at, sending, feed>>
<1>1. get[g] # Idle /\ get'[g] = Idle /\ Only(g)
    BY EndGetFacts DEF Base, Typed, Arrive
<1>2. m \notin crossed
    BY <1>1, MarksKept DEF Busy, Base
<1>3. Busy' = {}
    BY <1>1, <1>2 DEF Busy, Only, Base, Clean
<1>4. ~OnItsWay(m) /\ (m \in New => sending[m] \notin {"flushed", "published"})
    BY <1>1, <1>2, NotUnderWay DEF Busy, Met
<1>5. UNCHANGED <<stored, created_at, sending, feed>>
    BY DEF Arrive, serverVars
<1>6. QED
    BY <1>2, <1>3, <1>4, <1>5 DEF OnItsWay, IsNews

LEMMA FineLatest ==
    ASSUME Base, [Next]_vars, NEW g \in Gets, Arrive(g), get[g].kind = "latest",
           NEW m \in Message \ crossed'
    PROVE  Fine(m)'
<1>1. /\ m \notin crossed /\ Busy' = {} /\ ~OnItsWay(m)'
      /\ m \in New => sending'[m] \notin {"flushed", "published"}
      /\ stored' = stored /\ created_at' = created_at /\ feed' = feed
    BY ArriveFrame
<1>2. PICK p \in Seq(Message) :
        /\ p = get[g].page /\ list' \in Seq(Entry) /\ Len(list') = Len(p) /\ more' = Full(p)
        /\ \A i \in 1..Len(p) : list'[i].id = p[i]
    <2>1. PICK p \in Seq(Message), e \in Seq(Entry) :
            /\ p = get[g].page /\ e = <<>> /\ list' \in Seq(Entry)
            /\ Len(list') = Len(p) + Len(e) /\ more' = Full(p)
            /\ \A i \in 1..Len(p) : list'[i].id = p[i]
        BY ArriveList DEF Base
    <2>2. QED
        BY <2>1
<1>3. /\ p # <<>>
      /\ \A i, j \in 1..Len(p) : i < j => p[i] # p[j] /\ created_at[p[i]] <= created_at[p[j]]
      /\ m \in stored => \/ \E i \in 1..Len(p) : p[i] = m
                         \/ Full(p) /\ \A i \in 1..Len(p) : created_at[m] <= created_at[p[i]]
    <2>1. PageFits(g)
        BY ArriveList DEF Base
    <2>2. QED
        BY <1>1, <1>2, <2>1 DEF PageFits, Sought
<1>4. Len(p) \in Nat /\ 1 \in 1..Len(p) /\ DOMAIN list' = 1..Len(p) /\ DOMAIN p = 1..Len(p)
    BY <1>2, <1>3
<1>5. created_at \in [Message -> Nat] /\ \A i \in 1..Len(p) : p[i] \in Message
    BY <1>2 DEF Base, Typed, SendTyped
<1>6. \A i \in 1..Len(p) : created_at[p[1]] <= created_at[p[i]]
    BY <1>3, <1>4, <1>5
<1>7. Top' = created_at[p[1]]
    BY <1>1, <1>2, <1>4 DEF Top
<1>8. Once(m)'
    BY <1>1, <1>2, <1>3, <1>4 DEF Once, OnItsWay
<1>9. OnScreen(m)' <=> \E i \in 1..Len(p) : p[i] = m
    BY <1>2, <1>4 DEF OnScreen
<1>10. Below(m)'
    <2>1. OnScreen(m)' => Top' <= created_at[m]
        BY <1>6, <1>7, <1>9
    <2>2. ~more' /\ m \in stored => OnScreen(m)'
        BY <1>2, <1>3, <1>9
    <2>3. QED
        BY <1>1, <2>1, <2>2 DEF Below
<1>11. Reached(m)'
    <2>1. m \in stored /\ Top' < created_at[m] => OnScreen(m)'
        BY <1>3, <1>4, <1>5, <1>7, <1>9
    <2>2. QED
        BY <1>1, <2>1 DEF Reached
<1>12. Continues(m)'
    BY <1>1 DEF Continues
<1>13. QED
    BY <1>8, <1>10, <1>11, <1>12 DEF Fine

(* A page of older messages a put before the first E of the messages b.    *)
PutBefore(P, E, L, a, b, n, c, m) ==
    /\ \A i \in 1..P : n[i] = a[i]
    /\ \A i \in 1..E : n[P + i] = b[i]
    /\ E <= L /\ \A i \in 1..L : E < i => b[i] # m
    /\ \A i, j \in 1..P : i < j => a[i] # a[j] /\ c[a[i]] <= c[a[j]]
    /\ \A i \in 1..P : c[a[i]] < c[b[1]]
    /\ \A i, j \in 1..L : b[i] = m /\ b[j] = m => i = j
    /\ (\E i \in 1..L : b[i] = m) => c[b[1]] <= c[m]
Together(P, E, L, a, b, n, c, m) ==
    /\ \A i, j \in 1..(P + E) : n[i] = m /\ n[j] = m => i = j
    /\ (\E i \in 1..(P + E) : n[i] = m)
       <=> (\E i \in 1..P : a[i] = m) \/ (\E i \in 1..L : b[i] = m)
    /\ c[n[1]] <= c[b[1]] /\ \A i \in 1..P : c[n[1]] <= c[a[i]]
    /\ P > 0 => n[1] = a[1]

LEMMA Before ==
    ASSUME NEW P \in Nat, NEW E \in Nat \ {0}, NEW L \in Nat,
           NEW a \in [1..P -> Message], NEW b \in [1..L -> Message],
           NEW n \in [1..(P + E) -> Message], NEW c \in [Message -> Nat], NEW m \in Message,
           PutBefore(P, E, L, a, b, n, c, m)
    PROVE  Together(P, E, L, a, b, n, c, m)
<1> USE DEF PutBefore
<1>1. \A i \in 1..(P + E) : i \in 1..P \/ \E k \in 1..E : i = P + k
    <2>1. SUFFICES ASSUME NEW i \in 1..(P + E), i \notin 1..P
                   PROVE  \E k \in 1..E : i = P + k
        OBVIOUS
    <2>2. i - P \in 1..E /\ i = P + (i - P)
        BY <2>1
    <2>3. QED
        BY <2>2
<1>2. /\ \A i \in 1..P : i \in 1..(P + E)
      /\ \A k \in 1..E : P + k \in 1..(P + E) /\ k \in 1..L
      /\ 1 \in 1..L /\ 1 \in 1..E
    OBVIOUS
<1>3. \A i \in 1..L : b[i] = m => i \in 1..E
    OBVIOUS
<1>4. ASSUME NEW i \in 1..(P + E), NEW j \in 1..(P + E), n[i] = m, n[j] = m, i < j
      PROVE  FALSE
    <2>1. CASE j \in 1..P
        <3>1. i \in 1..P
            BY <1>4, <2>1
        <3>2. QED
            BY <1>4, <2>1, <3>1
    <2>2. ASSUME NEW k \in 1..E, j = P + k PROVE FALSE
        <3>1. b[k] = m /\ k \in 1..L
            BY <1>2, <1>4, <2>2
        <3>2. CASE i \in 1..P
            <4>1. a[i] = m /\ c[m] < c[b[1]] /\ c[b[1]] <= c[m]
                BY <1>4, <3>1, <3>2
            <4>2. c[m] \in Nat /\ b[1] \in Message /\ c[b[1]] \in Nat
                BY <1>2
            <4>3. QED
                BY <4>1, <4>2
        <3>3. ASSUME NEW h \in 1..E, i = P + h PROVE FALSE
            <4>1. b[h] = m /\ h \in 1..L
                BY <1>2, <1>4, <3>3
            <4>2. h = k
                BY <3>1, <4>1
            <4>3. QED
                BY <1>4, <2>2, <3>3, <4>2
        <3>4. QED
            BY <1>1, <3>2, <3>3
    <2>3. QED
        BY <1>1, <2>1, <2>2
<1>5. \A i, j \in 1..(P + E) : n[i] = m /\ n[j] = m => i = j
    <2>1. \A i, j \in 1..(P + E) : i = j \/ i < j \/ j < i
        OBVIOUS
    <2>2. QED
        BY <1>4, <2>1
<1>6. (\E i \in 1..(P + E) : n[i] = m)
      <=> (\E i \in 1..P : a[i] = m) \/ (\E i \in 1..L : b[i] = m)
    <2>1. ASSUME NEW i \in 1..(P + E), n[i] = m
          PROVE  (\E j \in 1..P : a[j] = m) \/ (\E j \in 1..L : b[j] = m)
        <3>1. CASE i \in 1..P
            BY <2>1, <3>1
        <3>2. ASSUME NEW k \in 1..E, i = P + k PROVE \E j \in 1..L : b[j] = m
            <4>1. b[k] = m /\ k \in 1..L
                BY <1>2, <2>1, <3>2
            <4>2. QED
                BY <4>1
        <3>3. QED
            BY <1>1, <3>1, <3>2
    <2>2. ASSUME NEW j \in 1..P, a[j] = m PROVE \E i \in 1..(P + E) : n[i] = m
        <3>1. j \in 1..(P + E) /\ n[j] = m
            BY <1>2, <2>2
        <3>2. QED
            BY <3>1
    <2>3. ASSUME NEW j \in 1..L, b[j] = m PROVE \E i \in 1..(P + E) : n[i] = m
        <3>1. j \in 1..E
            BY <1>3, <2>3
        <3>2. P + j \in 1..(P + E) /\ n[P + j] = m
            BY <1>2, <2>3, <3>1
        <3>3. QED
            BY <3>2
    <2>4. QED
        BY <2>1, <2>2, <2>3
<1>7. /\ c[n[1]] <= c[b[1]] /\ \A i \in 1..P : c[n[1]] <= c[a[i]]
      /\ P > 0 => n[1] = a[1]
    <2>1. c[b[1]] \in Nat /\ \A i \in 1..P : c[a[i]] \in Nat
        BY <1>2
    <2>2. CASE P > 0
        <3>1. 1 \in 1..P /\ n[1] = a[1]
            BY <2>2
        <3>2. ASSUME NEW i \in 1..P PROVE c[a[1]] <= c[a[i]]
            <4>1. i = 1 \/ 1 < i
                OBVIOUS
            <4>2. QED
                BY <2>1, <3>1, <4>1
        <3>3. QED
            BY <2>1, <2>2, <3>1, <3>2
    <2>3. CASE P = 0
        <3>1. n[1] = b[1]
            BY <1>2, <2>3
        <3>2. QED
            BY <2>1, <2>3, <3>1
    <2>4. QED
        BY <2>2, <2>3
<1>8. QED
    BY <1>5, <1>6, <1>7 DEF Together

LEMMA FineOlder ==
    ASSUME Base, [Next]_vars, NEW g \in Gets, Arrive(g), get[g].kind = "older",
           NEW m \in Message \ crossed', Fine(m)
    PROVE  Fine(m)'
<1>1. /\ m \notin crossed /\ Busy' = {} /\ ~OnItsWay(m) /\ ~OnItsWay(m)'
      /\ m \in New => sending'[m] \notin {"flushed", "published"}
      /\ stored' = stored /\ created_at' = created_at /\ feed' = feed
    BY ArriveFrame
<1>2. /\ get[g] # Idle /\ g \in Busy /\ PageFits(g)
      /\ get[g].existing # <<>> /\ get[g].existing[1].id \in stored
    BY ArriveList DEF Base, Rooted, Busy
<1>3. PICK p \in Seq(Message), e \in Seq(Entry) :
        /\ p = get[g].page /\ e = get[g].existing /\ list' \in Seq(Entry)
        /\ Len(list') = Len(p) + Len(e) /\ more' = Full(p)
        /\ \A i \in 1..Len(p) : list'[i].id = p[i]
        /\ \A i \in 1..Len(e) : list'[Len(p) + i] = e[i]
    BY ArriveList DEF Base
<1>4. PICK l \in Seq(Entry) : l = list
    BY DEF Base, Typed, TabTyped
<1>5. PICK k \in Seq(Entry) : k = list'
    BY <1>3
<1>6. PICK P \in Nat : P = Len(p) /\ DOMAIN p = 1..P
    OBVIOUS
<1>7. PICK E \in Nat \ {0} : E = Len(e) /\ DOMAIN e = 1..E
    <2>1. e # <<>>
        BY <1>2, <1>3
    <2>2. Len(e) \in Nat \ {0} /\ DOMAIN e = 1..Len(e)
        BY <2>1
    <2>3. QED
        BY <2>2
<1>8. PICK L \in Nat : L = Len(l) /\ DOMAIN l = 1..L
    OBVIOUS
<1>9. DOMAIN k = 1..(P + E)
    <2>1. Len(k) = P + E
        BY <1>3, <1>5, <1>6, <1>7
    <2>2. QED
        BY <2>1
<1>10. \A i \in 1..P : i \in 1..(P + E)
    OBVIOUS
<1>11. /\ E <= L /\ \A i \in 1..E : e[i].id = l[i].id
      /\ \A i \in 1..L : E < i => l[i].id # m
    BY <1>2, <1>3, <1>4, <1>7, <1>8 DEF Fine, Continues
<1>12. PICK a \in [1..P -> Message] : a = p
    BY <1>6
<1>13. PICK b \in [1..L -> Message] : \A i \in 1..L : b[i] = l[i].id
    <2>1. \A i \in 1..L : l[i].id \in Message
        BY <1>4, <1>8, Ids DEF Base
    <2>2. PICK f : f = [i \in 1..L |-> l[i].id]
        OBVIOUS
    <2>3. f \in [1..L -> Message] /\ \A i \in 1..L : f[i] = l[i].id
        BY <2>1, <2>2
    <2>4. QED
        BY <2>3
<1>14. PICK n \in [1..(P + E) -> Message] : \A i \in 1..(P + E) : n[i] = k[i].id
    <2>1. \A i \in 1..(P + E) : k[i] \in Entry
        BY <1>9
    <2>2. \A i \in 1..(P + E) : k[i].id \in Message
        BY <2>1 DEF Entry
    <2>3. PICK f : f = [i \in 1..(P + E) |-> k[i].id]
        OBVIOUS
    <2>4. f \in [1..(P + E) -> Message] /\ \A i \in 1..(P + E) : f[i] = k[i].id
        BY <2>2, <2>3
    <2>5. QED
        BY <2>4
<1>15. \A i \in 1..P : n[i] = a[i]
    <2>1. \A i \in 1..P : k[i].id = p[i]
        BY <1>3, <1>5, <1>6
    <2>2. QED
        BY <1>12, <1>14, <1>10, <2>1
<1>16. \A i \in 1..E : n[P + i] = b[i]
    <2>1. \A i \in 1..E : P + i \in 1..(P + E) /\ i \in 1..L
        BY <1>11
    <2>2. \A i \in 1..E : k[P + i] = e[i]
        BY <1>3, <1>5, <1>6, <1>7
    <2>3. QED
        BY <1>11, <1>13, <1>14, <2>1, <2>2
<1>17. PICK c \in [Message -> Nat] : c = created_at
    BY DEF Base, Typed, SendTyped
<1>18. 1 \in 1..L /\ 1 \in 1..E /\ 1 \in 1..(P + E)
    BY <1>11
<1>19. /\ b[1] = get[g].existing[1].id /\ b[1] \in stored /\ b[1] \in Message
       /\ Top = c[b[1]] /\ Top' = c[n[1]]
    <2>1. b[1] = get[g].existing[1].id /\ b[1] \in stored
        <3>1. e[1].id = l[1].id /\ b[1] = l[1].id
            BY <1>11, <1>13, <1>18
        <3>2. e[1].id = get[g].existing[1].id /\ e[1].id \in stored
            BY <1>2, <1>3
        <3>3. QED
            BY <3>1, <3>2
    <2>2. Top = c[b[1]]
        BY <1>4, <1>13, <1>17, <1>18 DEF Top
    <2>3. Top' = c[n[1]]
        BY <1>1, <1>5, <1>14, <1>17, <1>18 DEF Top
    <2>4. QED
        BY <1>18, <2>1, <2>2, <2>3
<1>20. /\ \A i \in 1..P : c[a[i]] < c[b[1]]
       /\ \A i, j \in 1..P : i < j => a[i] # a[j] /\ c[a[i]] <= c[a[j]]
       /\ m \in stored /\ c[m] < c[b[1]] =>
             (\E i \in 1..P : a[i] = m) \/ (Full(p) /\ \A i \in 1..P : c[m] <= c[a[i]])
    <2>1. PageFits(g) /\ get[g].kind # "latest" /\ get[g].page = a /\ DOMAIN a = 1..P
          /\ \A x : Sought(g, x) <=> c[x] < c[b[1]]
        BY <1>2, <1>3, <1>12, <1>17, <1>19 DEF Sought
    <2>2. QED
        BY <1>1, <1>12, <1>17, <2>1 DEF PageFits
<1>21. /\ \A i, j \in 1..L : b[i] = m /\ b[j] = m => i = j
       /\ OnScreen(m) <=> \E i \in 1..L : b[i] = m
    <2>1. DOMAIN list = 1..L /\ \A i \in 1..L : list[i].id = b[i]
        BY <1>4, <1>13, <1>8
    <2>2. QED
        BY <2>1 DEF Fine, Once, OnScreen
<1>22. (\E i \in 1..L : b[i] = m) => c[b[1]] <= c[m]
    BY <1>17, <1>19, <1>21 DEF Fine, Below
<1>23. /\ \A i, j \in 1..(P + E) : n[i] = m /\ n[j] = m => i = j
       /\ (\E i \in 1..(P + E) : n[i] = m)
          <=> (\E i \in 1..P : a[i] = m) \/ (\E i \in 1..L : b[i] = m)
       /\ c[n[1]] <= c[b[1]] /\ \A i \in 1..P : c[n[1]] <= c[a[i]]
       /\ P > 0 => n[1] = a[1]
    <2>1. \A i \in 1..L : E < i => b[i] # m
        BY <1>11, <1>13
    <2>2. E <= L
        BY <1>11
    <2>3. QED
        <3>1. PutBefore(P, E, L, a, b, n, c, m)
            BY <1>15, <1>16, <1>20, <1>21, <1>22, <2>1, <2>2 DEF PutBefore
        <3>2. Together(P, E, L, a, b, n, c, m)
            BY <3>1, Before
        <3>3. QED
            BY <3>2 DEF Together
<1>24. OnScreen(m)' <=> (\E i \in 1..P : a[i] = m) \/ (\E i \in 1..L : b[i] = m)
    <2>1. OnScreen(m)' <=> \E i \in 1..(P + E) : n[i] = m
        <3>1. DOMAIN list' = 1..(P + E) /\ \A i \in 1..(P + E) : list'[i].id = n[i]
            BY <1>5, <1>14, <1>9
        <3>2. QED
            BY <3>1 DEF OnScreen
    <2>2. QED
        BY <1>23, <2>1
<1>25. Once(m)'
    <2>1. DOMAIN list' = 1..(P + E) /\ \A i \in 1..(P + E) : list'[i].id = n[i]
        BY <1>5, <1>14, <1>9
    <2>2. \A i, j \in DOMAIN list' : list'[i].id = m /\ list'[j].id = m => i = j
        BY <1>23, <2>1
    <2>3. \A i, j \in DOMAIN feed' : ~(IsNews(i, m)' /\ IsNews(j, m)')
        BY <1>1 DEF OnItsWay
    <2>4. QED
        BY <1>1, <2>2, <2>3 DEF Once
<1>26. c[m] \in Nat /\ c[b[1]] \in Nat /\ c[n[1]] \in Nat /\ \A i \in 1..P : c[a[i]] \in Nat
    BY <1>18
<1>27. Below(m)'
    <2>1. (\E i \in 1..P : a[i] = m) => c[n[1]] <= c[m]
        BY <1>23
    <2>2. c[b[1]] <= c[m] => c[n[1]] <= c[m]
        BY <1>23, <1>26
    <2>3. OnScreen(m)' => c[n[1]] <= c[m]
        BY <1>22, <1>24, <2>1, <2>2
    <2>4. ~more' /\ m \in stored => c[n[1]] <= c[m]
        <3>1. c[m] < c[b[1]] \/ c[b[1]] <= c[m]
            BY <1>26
        <3>2. QED
            BY <1>3, <1>20, <2>1, <2>2, <3>1
    <2>5. Top' <= created_at'[m] <=> c[n[1]] <= c[m]
        BY <1>1, <1>17, <1>19
    <2>6. QED
        BY <1>1, <2>3, <2>4, <2>5 DEF Below
<1>28. Reached(m)'
    <2>1. ASSUME m \in stored, m \notin Tied, c[n[1]] < c[m] PROVE OnScreen(m)'
        <3>1. CASE c[b[1]] < c[m]
            <4>1. OnScreen(m)
                BY <1>1, <1>17, <1>19, <2>1, <3>1 DEF Fine, Reached
            <4>2. QED
                BY <1>21, <1>24, <4>1
        <3>2. CASE c[m] < c[b[1]]
            <4>1. \/ \E i \in 1..P : a[i] = m
                  \/ Full(p) /\ \A i \in 1..P : c[m] <= c[a[i]]
                BY <1>20, <2>1, <3>2
            <4>2. Full(p) => 1 \in 1..P /\ n[1] = a[1]
                BY <1>6, <1>23, MessagesAssumption DEF Full
            <4>3. QED
                BY <1>24, <1>26, <2>1, <4>1, <4>2
        <3>3. CASE c[m] = c[b[1]]
            <4>1. m = b[1]
                BY <1>17, <1>19, <2>1, <3>3 DEF Tied
            <4>2. QED
                BY <1>18, <1>24, <4>1
        <3>4. QED
            BY <1>26, <3>1, <3>2, <3>3
    <2>2. Tied' = Tied
        BY <1>1 DEF Tied
    <2>3. QED
        BY <1>1, <1>17, <1>19, <2>1, <2>2 DEF Reached
<1>29. Continues(m)'
    BY <1>1 DEF Continues
<1>30. QED
    BY <1>25, <1>27, <1>28, <1>29 DEF Fine

NewsOnce(m) == \A i, j \in DOMAIN feed : IsNews(i, m) /\ IsNews(j, m) => i = j

LEMMA Appended ==
    ASSUME FeedTyped, NEW n \in Payload, feed' = Append(feed, n), NEW m,
           NewsOnce(m), ~(OnItsWay(m) /\ n.type = "message.new" /\ n.id = m)
    PROVE  /\ NewsOnce(m)'
           /\ OnItsWay(m)' <=> OnItsWay(m) \/ (n.type = "message.new" /\ n.id = m)
<1>1. PICK f \in Seq(Payload) : f = feed
    BY DEF FeedTyped
<1>2. PICK L \in Nat : L = Len(f) /\ DOMAIN f = 1..L
    OBVIOUS
<1>3. DOMAIN feed' = 1..(L + 1) /\ feed'[L + 1] = n /\ \A i \in 1..L : feed'[i] = f[i]
    BY <1>1, <1>2
<1>4. \A i \in 1..(L + 1) : i \in 1..L \/ i = L + 1
    OBVIOUS
<1>5. \A i \in 1..L : IsNews(i, m)' <=> IsNews(i, m)
    BY <1>1, <1>3 DEF IsNews
<1>6. IsNews(L + 1, m)' <=> n.type = "message.new" /\ n.id = m
    BY <1>3 DEF IsNews
<1>7. OnItsWay(m) <=> \E i \in 1..L : IsNews(i, m)
    BY <1>1, <1>2 DEF OnItsWay
<1>8. OnItsWay(m)' <=> \E i \in 1..(L + 1) : IsNews(i, m)'
    BY <1>3 DEF OnItsWay
<1>9. \A i \in 1..L : i \in 1..(L + 1)
    OBVIOUS
<1>10. L + 1 \in 1..(L + 1)
    OBVIOUS
<1>11. OnItsWay(m)' <=> OnItsWay(m) \/ (n.type = "message.new" /\ n.id = m)
    BY <1>4, <1>5, <1>6, <1>7, <1>8, <1>9, <1>10
<1>12. \A i, j \in 1..L : IsNews(i, m) /\ IsNews(j, m) => i = j
    BY <1>1, <1>2 DEF NewsOnce
<1>13. \A i, j \in 1..(L + 1) : IsNews(i, m)' /\ IsNews(j, m)' => i = j
    BY <1>4, <1>5, <1>6, <1>7, <1>12
<1>14. QED
    BY <1>3, <1>11, <1>13 DEF NewsOnce

LEMMA Taken ==
    ASSUME Typed, OnMessage, NEW m, NewsOnce(m)
    PROVE  /\ NewsOnce(m)'
           /\ OnItsWay(m)' => OnItsWay(m)
           /\ OnItsWay(m) => OnItsWay(m)' \/ IsNews(1, m)
           /\ OnItsWay(m)' => ~IsNews(1, m)
           /\ IsNews(1, m) => OnItsWay(m)
<1>1. PICK f \in Seq(Payload) : f = feed /\ f # <<>>
    BY DEF Typed, FeedTyped, OnMessage
<1>2. PICK L \in Nat : Len(f) = L + 1 /\ DOMAIN f = 1..(L + 1)
    <2>1. Len(f) \in Nat /\ Len(f) # 0 /\ DOMAIN f = 1..Len(f)
        BY <1>1
    <2>2. Len(f) - 1 \in Nat /\ Len(f) = (Len(f) - 1) + 1
        BY <2>1
    <2>3. QED
        BY <2>1, <2>2
<1>3. DOMAIN feed' = 1..L /\ \A i \in 1..L : feed'[i] = f[i + 1]
    <2>1. feed' = Tail(f)
        BY <1>1 DEF OnMessage
    <2>2. QED
        BY <1>1, <1>2, <2>1
<1>4. \A i \in 1..(L + 1) : i = 1 \/ \E j \in 1..L : i = j + 1
    <2>1. \A i \in 1..(L + 1) : i = 1 \/ (i - 1 \in 1..L /\ i = (i - 1) + 1)
        OBVIOUS
    <2>2. QED
        BY <2>1
<1>5. \A i \in 1..L : i + 1 \in 1..(L + 1) /\ i + 1 # 1
    OBVIOUS
<1>6. \A i \in 1..L : IsNews(i, m)' <=> IsNews(i + 1, m)
    BY <1>1, <1>3 DEF IsNews
<1>7. OnItsWay(m)' <=> \E i \in 1..L : IsNews(i + 1, m)
    BY <1>3, <1>6 DEF OnItsWay
<1>8. OnItsWay(m) <=> \E i \in 1..(L + 1) : IsNews(i, m)
    BY <1>1, <1>2 DEF OnItsWay
<1>9. \A i, j \in 1..(L + 1) : IsNews(i, m) /\ IsNews(j, m) => i = j
    BY <1>1, <1>2 DEF NewsOnce
<1>10. 1 \in 1..(L + 1)
    OBVIOUS
<1>11. \A i, j \in 1..L : IsNews(i, m)' /\ IsNews(j, m)' => i = j
    <2>1. \A i, j \in 1..L : i + 1 = j + 1 => i = j
        OBVIOUS
    <2>2. QED
        BY <1>5, <1>6, <1>9, <2>1
<1>12. NewsOnce(m)'
    BY <1>3, <1>11 DEF NewsOnce
<1>13. QED
    BY <1>4, <1>5, <1>7, <1>8, <1>9, <1>10, <1>12

LEMMA StillContinues ==
    ASSUME Base, [Next]_vars, Current', list' = list, NEW m, Continues(m)
    PROVE  Continues(m)'
<1>1. ASSUME NEW g \in Gets, get'[g] # Idle
      PROVE  LET e == get'[g].existing IN
             /\ Len(e) <= Len(list) /\ \A i \in 1..Len(e) : e[i].id = list[i].id
             /\ \A i \in DOMAIN list : Len(e) < i => list[i].id # m
    <2>1. CASE Kept(g)
        <3>1. get'[g].existing = get[g].existing /\ g \in Busy
            BY <2>1 DEF Kept, Busy
        <3>2. QED
            BY <3>1 DEF Continues
    <2>2. CASE Asked(g, "older", list)
        <3>1. PICK l \in Seq(Entry) : l = list
            BY DEF Base, Typed, TabTyped
        <3>2. Len(l) \in Nat /\ \A i \in DOMAIN l : ~(Len(l) < i)
            OBVIOUS
        <3>3. get'[g].existing = l
            BY <2>2, <3>1 DEF Asked
        <3>4. QED
            BY <3>1, <3>2, <3>3
    <2>3. QED
        BY <1>1, <2>1, <2>2, GetsKept, AsksLatest DEF Base
<1>2. QED
    BY <1>1 DEF Continues, Busy

LEMMA FineBeside ==
    ASSUME Base, [Next]_vars, Current', NEW m, Fine(m),
           UNCHANGED <<stored, created_at, sending, list, more, feed>>
    PROVE  Fine(m)'
<1>1. Continues(m)'
    BY StillContinues DEF Fine
<1>2. Once(m)' /\ Below(m)' /\ Reached(m)'
    BY DEF Fine, Once, Below, Reached, OnScreen, OnItsWay, IsNews, Top, Tied
<1>3. QED
    BY <1>1, <1>2 DEF Fine

LEMMA FineMessage ==
    ASSUME Base, OnMessage, NEW m \in Message, m \notin crossed, Fine(m)
    PROVE  Fine(m)'
<1>1. UNCHANGED <<stored, created_at, sending, more, get>>
    BY DEF OnMessage, sendVars
<1>2. PICK l \in Seq(Entry) : l = list /\ l # <<>>
    BY DEF Base, Typed, TabTyped, Rooted
<1>3. PICK L \in Nat \ {0} : L = Len(l) /\ DOMAIN l = 1..L
    BY <1>2
<1>4. PICK k \in Seq(Entry) : k = list'
    BY MessageList DEF Base
<1>5. PICK n \in Payload :
        /\ n = feed[1]
        /\ \/ /\ n.type = "message.new" /\ n.id \in New
              /\ Len(k) = L + 1 /\ k[L + 1].id = n.id /\ \A i \in 1..L : k[i] = l[i]
           \/ /\ n.type = "reaction.update" /\ Len(k) = L
              /\ \A i \in 1..L : k[i].id = l[i].id
    BY <1>2, <1>3, <1>4, MessageList DEF Base
<1>6. /\ NewsOnce(m)' /\ (OnItsWay(m)' => OnItsWay(m))
      /\ OnItsWay(m) => OnItsWay(m)' \/ IsNews(1, m)
      /\ OnItsWay(m)' => ~IsNews(1, m)
      /\ IsNews(1, m) => OnItsWay(m)
    BY Taken DEF Base, Fine, Once, NewsOnce
<1>7. IsNews(1, m) <=> n.type = "message.new" /\ n.id = m
    BY <1>5 DEF IsNews
<1>8. /\ \A i, j \in 1..L : l[i].id = m /\ l[j].id = m => i = j
      /\ OnScreen(m) <=> \E i \in 1..L : l[i].id = m
      /\ ~(OnScreen(m) /\ OnItsWay(m))
    BY <1>2, <1>3 DEF Fine, Once, OnScreen
<1>9. PICK K \in {L, L + 1} : K = Len(k) /\ DOMAIN k = 1..K
    BY <1>4, <1>5
<1>10. /\ \A i \in 1..L : i \in 1..K /\ k[i].id = l[i].id
       /\ \A i \in 1..K : i \notin 1..L =>
             i = L + 1 /\ n.type = "message.new" /\ k[i].id = n.id
       /\ n.type = "message.new" => L + 1 \in 1..K /\ k[L + 1].id = n.id
       /\ 1 \in 1..L
    <2>1. CASE n.type = "message.new"
        <3>1. K = L + 1 /\ k[L + 1].id = n.id /\ \A i \in 1..L : k[i] = l[i]
            BY <1>5, <1>9, <2>1
        <3>2. /\ \A i \in 1..L : i \in 1..(L + 1)
              /\ \A i \in 1..(L + 1) : i \notin 1..L => i = L + 1
              /\ L + 1 \in 1..(L + 1) /\ 1 \in 1..L
            OBVIOUS
        <3>3. QED
            BY <2>1, <3>1, <3>2
    <2>2. CASE n.type # "message.new"
        BY <1>5, <1>9, <2>2
    <2>3. QED
        BY <2>1, <2>2
<1>11. OnScreen(m)' <=> OnScreen(m) \/ IsNews(1, m)
    <2>1. OnScreen(m)' <=> \E i \in 1..K : k[i].id = m
        BY <1>4, <1>9 DEF OnScreen
    <2>2. QED
        BY <1>7, <1>8, <1>10, <2>1
<1>12. \A i, j \in 1..K : k[i].id = m /\ k[j].id = m => i = j
    BY <1>6, <1>7, <1>8, <1>10
<1>13. Top' = Top
    BY <1>1, <1>2, <1>4, <1>10 DEF Top
<1>14. Once(m)'
    <2>1. \A i, j \in DOMAIN list' : list'[i].id = m /\ list'[j].id = m => i = j
        BY <1>4, <1>9, <1>12
    <2>2. ~(OnScreen(m)' /\ OnItsWay(m)')
        BY <1>6, <1>8, <1>11
    <2>3. QED
        BY <1>6, <2>1, <2>2 DEF Once, NewsOnce
<1>15. Below(m)'
    <2>1. OnScreen(m)' \/ OnItsWay(m)' => OnScreen(m) \/ OnItsWay(m)
        BY <1>6, <1>11
    <2>2. QED
        BY <1>1, <1>13, <2>1 DEF Fine, Below
<1>16. Reached(m)'
    <2>1. OnScreen(m) \/ OnItsWay(m) => OnScreen(m)' \/ OnItsWay(m)'
        BY <1>6, <1>11
    <2>2. Tied' = Tied
        BY <1>1 DEF Tied
    <2>3. QED
        BY <1>1, <1>13, <2>1, <2>2 DEF Fine, Reached
<1>17. Continues(m)'
    <2>1. ASSUME NEW g \in Busy
          PROVE  LET e == get[g].existing IN
                 /\ Len(e) <= Len(k) /\ \A i \in 1..Len(e) : e[i].id = k[i].id
                 /\ \A i \in DOMAIN k : Len(e) < i => k[i].id # m
        <3>1. ~IsNews(1, m)
            BY <1>6, NotUnderWay DEF Met
        <3>2. PICK e \in Seq(Entry) : e = get[g].existing
            BY Ids DEF Base, Busy, Get
        <3>3. PICK E \in Nat : E = Len(e)
            OBVIOUS
        <3>4. /\ E <= L /\ \A i \in 1..E : e[i].id = l[i].id
              /\ \A i \in 1..L : E < i => l[i].id # m
            BY <1>2, <1>3, <3>2, <3>3 DEF Fine, Continues
        <3>5. E <= K /\ \A i \in 1..E : i \in 1..L
            BY <1>9, <3>4
        <3>6. /\ \A i \in 1..E : e[i].id = k[i].id
              /\ \A i \in 1..K : E < i => k[i].id # m
            BY <1>7, <1>10, <3>1, <3>4, <3>5
        <3>7. QED
            BY <1>9, <3>2, <3>3, <3>5, <3>6
    <2>2. QED
        BY <1>1, <1>4, <2>1 DEF Continues, Busy
<1>18. QED
    BY <1>14, <1>15, <1>16, <1>17 DEF Fine

(* The steps of a send; m is what is sent or another message.              *)
LEMMA FineFlush ==
    ASSUME Base, [Next]_vars, Current', NEW x \in New, Flush(x), UNCHANGED tabVars,
           NEW m \in Message, Fine(m)
    PROVE  Fine(m)'
<1>1. /\ sending[x] = "new" /\ sending' = [sending EXCEPT ![x] = "flushed"]
      /\ \E now \in {clock, clock + 1} : created_at' = [created_at EXCEPT ![x] = now]
      /\ UNCHANGED <<stored, list, more, get, feed>>
    BY DEF Flush, SendTo, tabVars
<1>2. Continues(m)'
    BY <1>1, StillContinues DEF Fine
<1>3. /\ created_at \in [Message -> Nat] /\ clock \in Nat
      /\ \A y \in Message : created_at[y] <= clock
      /\ sending \in [New -> {"new", "flushed", "published", "ended"}]
      /\ stored \subseteq Message /\ x \in Message
    BY DEF Base, Typed, SendTyped, Message
<1>4. PICK now \in Nat : clock <= now /\ created_at' = [created_at EXCEPT ![x] = now]
    <2>1. PICK now \in {clock, clock + 1} : created_at' = [created_at EXCEPT ![x] = now]
        BY <1>1
    <2>2. now \in Nat /\ clock <= now
        BY <1>3
    <2>3. QED
        BY <2>1, <2>2
<1>5. ~Told(x) /\ \A y \in stored : Told(y)
    BY <1>1, MessageFacts, StoredIsTold DEF Told, Base
<1>6. /\ created_at'[x] = now /\ \A y \in Message \ {x} : created_at'[y] = created_at[y]
      /\ \A y \in stored : y # x
      /\ sending'[x] = "flushed" /\ \A y \in New \ {x} : sending'[y] = sending[y]
    BY <1>1, <1>3, <1>4, <1>5
<1>7. list[1].id \in stored /\ Top' = Top /\ Top \in Nat /\ Top <= clock
    BY <1>1, <1>3, <1>6 DEF Base, Rooted, Top
<1>8. (OnScreen(m)' <=> OnScreen(m)) /\ (OnItsWay(m)' <=> OnItsWay(m)) /\ Once(m)'
    BY <1>1 DEF OnScreen, OnItsWay, IsNews, Fine, Once
<1>9. Tied' = Tied
    BY <1>1, <1>3, <1>6 DEF Tied
<1>10. CASE m = x
    <2>1. ~OnScreen(m) /\ ~OnItsWay(m)
        BY <1>5, <1>10 DEF OnScreen, OnItsWay, IsNews, Base, Times
    <2>2. Below(m)'
        <3>1. Top' <= created_at'[m]
            BY <1>3, <1>4, <1>6, <1>7, <1>10
        <3>2. QED
            BY <3>1 DEF Below
    <2>3. Reached(m)'
        BY <1>1, <1>6, <1>10 DEF Reached
    <2>4. QED
        BY <1>2, <1>8, <2>2, <2>3 DEF Fine
<1>11. CASE m # x
    <2>1. created_at'[m] = created_at[m] /\ (m \in New => sending'[m] = sending[m])
        BY <1>6, <1>11
    <2>2. Below(m)' /\ Reached(m)'
        BY <1>1, <1>7, <1>8, <1>9, <2>1 DEF Fine, Below, Reached
    <2>3. QED
        BY <1>2, <1>8, <2>2 DEF Fine
<1>12. QED
    BY <1>10, <1>11

LEMMA FinePublish ==
    ASSUME Base, [Next]_vars, Current', NEW x \in New, PublishMessage(x), UNCHANGED tabVars,
           NEW m \in Message \ crossed', Fine(m)
    PROVE  Fine(m)'
<1>1. /\ sending[x] = "flushed" /\ sending'[x] = "published"
      /\ \A y \in New \ {x} : sending'[y] = sending[y]
      /\ UNCHANGED <<stored, created_at, list, more, link>>
    BY DEF PublishMessage, SendTo, tabVars, Base, Typed, SendTyped
<1>2. Continues(m)'
    BY <1>1, StillContinues DEF Fine
<1>3. PICK n \in Payload : n = [type |-> "message.new", id |-> x]
    BY DEF Payload
<1>4. n.type = "message.new" /\ n.id = x
    BY <1>3
<1>5. feed' = IF link = "up" THEN Append(feed, n) ELSE feed
    BY <1>3 DEF PublishMessage, Publish
<1>6. (OnScreen(m)' <=> OnScreen(m)) /\ Top' = Top /\ Tied' = Tied
    BY <1>1 DEF OnScreen, Top, Tied
<1>7. /\ \A i, j \in DOMAIN list : list[i].id = m /\ list[j].id = m => i = j
      /\ NewsOnce(m) /\ ~(OnScreen(m) /\ OnItsWay(m)) /\ FeedTyped
    BY DEF Fine, Once, NewsOnce, Base, Typed
<1>8. CASE m = x
    <2>1. ~OnScreen(m) /\ ~OnItsWay(m)
        <3>1. ~Told(x)
            BY <1>1, MessageFacts DEF Told
        <3>2. QED
            BY <1>8, <3>1 DEF OnScreen, OnItsWay, IsNews, Base, Times
    <2>2. link = "up"
        <3>1. x \in SendsUnderWay'
            BY <1>1 DEF SendsUnderWay
        <3>2. ~Met'
            BY <1>8, <3>1, MarksKept DEF Base, Clean
        <3>3. QED
            BY <1>1, <3>2 DEF Met, Current, Base, Typed, FeedTyped
    <2>3. NewsOnce(m)' /\ OnItsWay(m)'
        BY <1>4, <1>5, <1>7, <1>8, <2>1, <2>2, Appended
    <2>4. Once(m)'
        BY <1>1, <1>6, <1>7, <2>1, <2>3 DEF Once, NewsOnce
    <2>5. Top <= created_at[m] /\ m \in New
        BY <1>1, <1>8 DEF Fine, Below
    <2>6. Below(m)' /\ Reached(m)'
        BY <1>1, <1>6, <2>3, <2>5 DEF Below, Reached
    <2>7. QED
        BY <1>2, <2>4, <2>6 DEF Fine
<1>9. CASE m # x
    <2>1. NewsOnce(m)' /\ (OnItsWay(m)' <=> OnItsWay(m))
        <3>1. CASE link = "up"
            BY <1>4, <1>5, <1>7, <1>9, <3>1, Appended
        <3>2. CASE link # "up"
            BY <1>5, <1>7, <3>2 DEF NewsOnce, OnItsWay, IsNews
        <3>3. QED
            BY <3>1, <3>2
    <2>2. Once(m)'
        BY <1>1, <1>6, <1>7, <2>1 DEF Once, NewsOnce
    <2>3. Below(m)' /\ Reached(m)'
        BY <1>1, <1>6, <1>9, <2>1 DEF Fine, Below, Reached
    <2>4. QED
        BY <1>2, <2>2, <2>3 DEF Fine
<1>10. QED
    BY <1>8, <1>9

LEMMA FineStore ==
    ASSUME Base, [Next]_vars, Current', NEW x \in New, Store(x) \/ AbortSend(x),
           UNCHANGED tabVars, NEW m \in Message, Fine(m)
    PROVE  Fine(m)'
<1>1. /\ sending'[x] = "ended" /\ \A y \in New \ {x} : sending'[y] = sending[y]
      /\ UNCHANGED <<created_at, list, more, feed>>
      /\ \A y \in stored' \ stored : y = x /\ sending[x] = "published"
    BY DEF Store, AbortSend, SendTo, tabVars, Base, Typed, SendTyped
<1>2. stored \subseteq stored'
    BY SendKept DEF Base
<1>3. Continues(m)'
    BY <1>1, StillContinues DEF Fine
<1>4. /\ (OnScreen(m)' <=> OnScreen(m)) /\ (OnItsWay(m)' <=> OnItsWay(m)) /\ Top' = Top
      /\ Once(m)'
    BY <1>1 DEF OnScreen, OnItsWay, IsNews, Top, Fine, Once
<1>5. \A y \in stored : y \notin Tied' => y \notin Tied
    BY <1>1, <1>2 DEF Tied
<1>6. m \in stored' \ stored => OnScreen(m) \/ OnItsWay(m)
    BY <1>1 DEF Fine, Reached
<1>7. Below(m)'
    BY <1>1, <1>4, <1>6 DEF Fine, Below
<1>8. Reached(m)'
    <2>1. m \in New /\ sending'[m] = "published" => OnScreen(m) \/ OnItsWay(m)
        BY <1>1 DEF Fine, Reached
    <2>2. m \in stored' \ Tied' /\ Top < created_at[m] => OnScreen(m) \/ OnItsWay(m)
        BY <1>5, <1>6 DEF Fine, Reached
    <2>3. QED
        BY <1>1, <1>4, <2>1, <2>2 DEF Reached
<1>9. QED
    BY <1>3, <1>4, <1>7, <1>8 DEF Fine

LEMMA FineToggle ==
    ASSUME Base, [Next]_vars, Current', ToggleStep, UNCHANGED <<sendVars, tabVars>>,
           NEW m \in Message, Fine(m)
    PROVE  Fine(m)'
<1>1. UNCHANGED <<stored, created_at, sending, list, more>>
    BY DEF sendVars, tabVars
<1>2. CASE feed' = feed
    BY <1>1, <1>2, FineBeside
<1>3. ASSUME NEW t \in Toggles, PublishReactions(t), feed' # feed PROVE Fine(m)'
    <2>1. PICK n \in Payload : n = [type |-> "reaction.update", by |-> snapshot[t]]
        BY DEF Payload, Base, Typed, ToggleTyped
    <2>2. n.type # "message.new" /\ feed' = Append(feed, n)
        BY <1>3, <2>1 DEF PublishReactions, Publish
    <2>3. NewsOnce(m) /\ FeedTyped
        BY DEF Fine, Once, NewsOnce, Base, Typed
    <2>4. NewsOnce(m)' /\ (OnItsWay(m)' <=> OnItsWay(m))
        BY <2>2, <2>3, Appended
    <2>5. (OnScreen(m)' <=> OnScreen(m)) /\ Top' = Top /\ Tied' = Tied
        BY <1>1 DEF OnScreen, Top, Tied
    <2>6. Once(m)'
        BY <1>1, <2>4, <2>5 DEF Fine, Once, NewsOnce
    <2>7. Below(m)' /\ Reached(m)'
        BY <1>1, <2>4, <2>5 DEF Fine, Below, Reached
    <2>8. Continues(m)'
        BY <1>1, StillContinues DEF Fine
    <2>9. QED
        BY <2>6, <2>7, <2>8 DEF Fine
<1>4. QED
    BY <1>2, <1>3 DEF ToggleStep, Look, FlushToggle, ReadBack, CommitToggle, AbortToggle

LEMMA AllFineStep ==
    ASSUME Base, AllFine, [Next]_vars
    PROVE  AllFine'
<1> SUFFICES ASSUME Current', NEW m \in Message \ crossed' PROVE Fine(m)'
    BY DEF AllFine
<1>2. ASSUME NEW g \in Gets, Arrive(g), get[g].kind = "latest" PROVE Fine(m)'
    BY <1>2, FineLatest
<1>3. CASE \A g \in Gets : Arrive(g) => get[g].kind # "latest"
    <2>1. Current /\ m \notin crossed
        BY <1>3, Becomes
    <2>2. Fine(m)
        BY <2>1 DEF AllFine
    <2>3. ASSUME NEW g \in Gets, Arrive(g) PROVE Fine(m)'
        <3>1. get[g].kind = "older"
            BY <1>3, <2>3, ArriveList DEF Base, Get
        <3>2. QED
            BY <2>2, <2>3, <3>1, FineOlder
    <2>4. CASE OnMessage
        BY <2>1, <2>2, <2>4, FineMessage
    <2>5. CASE SendStep /\ UNCHANGED tabVars
        BY <2>2, <2>5, FineFlush, FinePublish, FineStore DEF SendStep
    <2>6. CASE ToggleStep /\ UNCHANGED <<sendVars, tabVars>>
        BY <2>2, <2>6, FineToggle
    <2>7. ASSUME UNCHANGED <<stored, created_at, sending, list, more, feed>> PROVE Fine(m)'
        BY <2>2, <2>7, FineBeside
    <2>8. CASE Next
        <3>1. CASE LinkStep /\ UNCHANGED sendVars
            <4>1. ~Drop
                BY DEF Drop, Current
            <4>2. QED
                BY <2>4, <2>7, <3>1, <4>1 DEF LinkStep, Reopen, Register, tabVars, sendVars
        <3>2. CASE ViewStep \/ GetStep
            BY <2>3, <2>7, <3>2 DEF ViewStep, GetStep, Leave, Enter, ScrollUp, ReadPage,
                                    ReadReactions, GetFails, serverVars
        <3>3. QED
            BY <2>5, <2>6, <2>8, <3>1, <3>2, Steps
    <2>9. QED
        BY <2>7, <2>8 DEF vars, serverVars, tabVars
<1>4. QED
    BY <1>2, <1>3

LEMMA AllFineInit == Init => AllFine
<1> SUFFICES ASSUME Init, NEW m \in Message PROVE Fine(m)
    BY DEF AllFine
<1>1. Typed
    BY TypedInit
<1>2. PICK p \in Pages(Latest) : list = Entries(p, reacted) /\ more = Full(p)
    BY DEF Init
<1>3. stored \subseteq Message /\ OlderThan(Latest) = stored /\ stored # {}
    BY <1>1, LatestIsAll, MessagesAssumption DEF Init, ServerInit, Typed, SendTyped
<1>4. /\ p \in Seq(stored) /\ p # <<>>
      /\ \A i, j \in DOMAIN p : i < j => p[i] # p[j] /\ created_at[p[i]] <= created_at[p[j]]
      /\ \A x \in stored : (\E i \in DOMAIN p : p[i] = x)
                           \/ (Full(p) /\ \A i \in DOMAIN p : created_at[x] <= created_at[p[i]])
    BY <1>2, <1>3, PagesAre DEF PageOf
<1>5. PICK P \in Nat \ {0} : P = Len(p) /\ DOMAIN p = 1..P
    BY <1>4
<1>6. 1 \in 1..P /\ \A i \in 1..P : p[i] \in Message
    BY <1>3, <1>4, <1>5
<1>7. DOMAIN list = 1..P /\ \A i \in 1..P : list[i].id = p[i]
    <2>1. p \in Seq(Message)
        BY <1>3, <1>4
    <2>2. PICK e \in Seq(Entry) : e = list /\ Len(e) = Len(p) /\ \A i \in 1..Len(p) : e[i].id = p[i]
        BY <1>1, <1>2, <2>1, EntriesAre DEF Typed, ToggleTyped
    <2>3. QED
        BY <1>5, <2>2
<1>8. PICK c \in [Message -> Nat] : c = created_at
    BY <1>1 DEF Typed, SendTyped
<1>9. Top = c[p[1]] /\ \A i \in 1..P : c[p[1]] <= c[p[i]]
    <2>1. Top = c[p[1]]
        BY <1>6, <1>7, <1>8 DEF Top
    <2>2. ASSUME NEW i \in 1..P PROVE c[p[1]] <= c[p[i]]
        <3>1. CASE i = 1
            BY <1>6, <3>1
        <3>2. CASE 1 < i
            BY <1>4, <1>5, <1>6, <1>8, <3>2
        <3>3. QED
            BY <3>1, <3>2
    <2>3. QED
        BY <2>1, <2>2
<1>10. /\ OnScreen(m) <=> \E i \in 1..P : p[i] = m
       /\ ~OnItsWay(m) /\ Busy = {} /\ (m \in New => sending[m] = "new")
    <2>1. OnScreen(m) <=> \E i \in 1..P : p[i] = m
        BY <1>7 DEF OnScreen
    <2>2. feed = <<>> /\ (m \in New => sending[m] = "new") /\ Busy = {}
        BY DEF Init, ServerInit, Busy
    <2>3. QED
        BY <2>1, <2>2 DEF OnItsWay
<1>11. Once(m)
    <2>1. \A i, j \in 1..P : p[i] = m /\ p[j] = m => i = j
        <3>1. \A i, j \in 1..P : i = j \/ i < j \/ j < i
            OBVIOUS
        <3>2. QED
            BY <1>4, <1>5, <3>1
    <2>2. \A i, j \in DOMAIN feed : ~IsNews(i, m)
        BY <1>10 DEF OnItsWay
    <2>3. QED
        BY <1>7, <1>10, <2>1, <2>2 DEF Once
<1>12. Below(m)
    <2>1. OnScreen(m) => Top <= created_at[m]
        BY <1>8, <1>9, <1>10
    <2>2. ~more /\ m \in stored => OnScreen(m)
        BY <1>2, <1>4, <1>5, <1>10
    <2>3. QED
        BY <1>10, <2>1, <2>2 DEF Below
<1>13. Reached(m)
    <2>1. m \in stored /\ Top < created_at[m] => OnScreen(m)
        BY <1>4, <1>5, <1>6, <1>8, <1>9, <1>10
    <2>2. QED
        BY <1>10, <2>1 DEF Reached
<1>14. Continues(m)
    BY <1>10 DEF Continues
<1>15. QED
    BY <1>11, <1>12, <1>13, <1>14 DEF Fine

LEMMA ListFine == Spec => [](Base /\ AllFine)
<1>1. Base /\ AllFine /\ [Next]_vars => (Base /\ AllFine)'
    BY BaseStep, AllFineStep
<1>2. QED
    BY <1>1, BaseInit, AllFineInit, PTL DEF Spec

LEMMA QuietIsFine ==
    ASSUME Base, AllFine, Quiet, NEW m \in Message \ crossed
    PROVE  Fine(m) /\ ~OnItsWay(m)
<1>1. Current
    BY DEF Quiet, Current
<1>2. ~OnItsWay(m)
    BY DEF Quiet, OnItsWay
<1>3. QED
    BY <1>1, <1>2 DEF AllFine

(* When everything has arrived, each message of the room newer than the    *)
(* top of the screen is on it, whatever was sent while the tab was away or *)
(* its connection down: the fetches of ChatWindow and onopen and addMessage*)
(* leave no gap but for what was under way during a GET.                   *)
THEOREM NoGap == Spec => []NothingMissing
<1>1. Base /\ AllFine => NothingMissing
    <2> SUFFICES ASSUME Base, AllFine, Quiet, NEW m \in stored \ (crossed \cup Tied),
                        created_at[list[1].id] < created_at[m]
                 PROVE  m \in Listed
        BY DEF NothingMissing
    <2>1. m \in Message \ crossed
        BY DEF Base, Typed, SendTyped
    <2>2. OnScreen(m)
        BY <2>1, QuietIsFine DEF Fine, Reached, Top
    <2>3. QED
        BY <2>2 DEF OnScreen, Listed
<1>2. QED
    BY <1>1, ListFine, PTL

(* And none is there twice: an older page ends before the list it is put   *)
(* before, and what a page has is not announced after it.                  *)
THEOREM NoRepeat == Spec => []NothingTwice
<1>1. Base /\ AllFine => NothingTwice
    <2> SUFFICES ASSUME Base, AllFine, Quiet, NEW i \in DOMAIN list, NEW j \in DOMAIN list,
                        i # j, list[i].id \notin crossed, list[i].id = list[j].id
                 PROVE  FALSE
        BY DEF NothingTwice
    <2>1. PICK m \in Message \ crossed : m = list[i].id
        BY Ids DEF Base
    <2>2. Once(m)
        BY QuietIsFine DEF Fine
    <2>3. QED
        BY <2>1, <2>2 DEF Once
<1>2. QED
    BY <1>1, ListFine, PTL

(* When no older page is offered, the whole room is on the screen: a page  *)
(* that is not full (fetchMessages, fetchOlderMessages) is the last.       *)
THEOREM EndIsReached == Spec => []EndReached
<1>1. Base /\ AllFine => EndReached
    <2> SUFFICES ASSUME Base, AllFine, Quiet, ~more, NEW m \in stored \ (crossed \cup Tied)
                 PROVE  m \in Listed
        BY DEF EndReached
    <2>1. m \in Message \ crossed
        BY DEF Base, Typed, SendTyped
    <2>2. Fine(m) /\ ~OnItsWay(m)
        BY <2>1, QuietIsFine
    <2>3. PICK l \in Seq(Entry) : l = list /\ l # <<>> /\ l[1].id \in stored /\ 1 \in DOMAIN l
        BY DEF Base, Typed, TabTyped, Rooted
    <2>4. /\ created_at[m] \in Nat /\ Top \in Nat /\ Top = created_at[l[1].id]
          /\ Top <= created_at[m]
        BY <2>1, <2>2, <2>3 DEF Base, Typed, SendTyped, Top, Fine, Below
    <2>5. CASE Top < created_at[m]
        BY <2>2, <2>5 DEF Fine, Reached, OnScreen, Listed
    <2>6. CASE Top = created_at[m]
        <3>1. m = l[1].id
            BY <2>3, <2>4, <2>6 DEF Tied
        <3>2. QED
            BY <2>3, <3>1 DEF Listed
    <2>7. QED
        BY <2>4, <2>5, <2>6
<1>2. QED
    BY <1>1, ListFine, PTL
-----------------------------------------------------------------------------
(* The reactions.  While no toggles cross, one toggle is under way at a    *)
(* time and none during a GET, so that what it read back is what it will   *)
(* commit and a GET reads what stays.                                      *)
Untoggled == crossed \cap Toggles = {}

OneAtATime ==
    Untoggled =>
        /\ Met => ~TogglesAbout
        /\ \A g, h \in Busy : g = h
        /\ \A s, t \in TogglesUnderWay : s = t
        /\ \A t \in Toggles : toggling[t] \in {"publish", "commit"} =>
                                  snapshot[t] = Applied(t)
        /\ \A g \in Busy : get[g].at = "read" => get[g].by = reacted

LEMMA MarksToggles ==
    ASSUME Track, Untoggled'
    PROVE  /\ Met' => ~TogglesAbout'
           /\ \A g, h \in Busy' : g = h
           /\ \A s, t \in TogglesUnderWay' : s = t
           /\ \A t \in Toggles : toggling[t] = "commit" /\ toggling'[t] = "ended"
                                 => reacted' = Applied(t)
<1>1. ~(Toggles \subseteq crossed')
    BY RoomViewAssumption DEF Untoggled
<1>2. QED
    BY <1>1, Marks

(* What a toggle's step leaves alone                                       *)
LEMMA ToggleFrame ==
    ASSUME Typed, NEW s \in Toggles, \/ Look(s) \/ FlushToggle(s) \/ ReadBack(s)
                                     \/ PublishReactions(s) \/ CommitToggle(s) \/ AbortToggle(s)
    PROVE  /\ \A t \in Toggles \ {s} : /\ toggling'[t] = toggling[t] /\ plan'[t] = plan[t]
                                       /\ snapshot'[t] = snapshot[t]
           /\ reacted' = reacted \/ CommitToggle(s)
<1>1. \A t \in Toggles \ {s} : toggling'[t] = toggling[t]
    BY DEF Look, FlushToggle, ReadBack, PublishReactions, CommitToggle, AbortToggle, ToggleTo,
           EndToggle, Typed, ToggleTyped
<1>2. \A t \in Toggles \ {s} : plan'[t] = plan[t]
    BY DEF Look, FlushToggle, ReadBack, PublishReactions, CommitToggle, AbortToggle, EndToggle,
           Typed, ToggleTyped
<1>3. \A t \in Toggles \ {s} : snapshot'[t] = snapshot[t]
    BY DEF Look, FlushToggle, ReadBack, PublishReactions, CommitToggle, AbortToggle, EndToggle,
           Typed, ToggleTyped
<1>4. reacted' = reacted \/ CommitToggle(s)
    BY DEF Look, FlushToggle, ReadBack, PublishReactions, AbortToggle
<1>5. QED
    BY <1>1, <1>2, <1>3, <1>4

LEMMA UntoggledBefore ==
    ASSUME Base, [Next]_vars, Untoggled', ~Alone
    PROVE  Untoggled
BY MarksKept DEF Base, Untoggled

LEMMA OneAtATimeStep ==
    ASSUME Base, OneAtATime, [Next]_vars
    PROVE  OneAtATime'
<1> SUFFICES ASSUME Untoggled' PROVE OneAtATime'
    BY DEF OneAtATime
<1>1. CASE UNCHANGED vars
    BY <1>1 DEF vars, serverVars, tabVars, OneAtATime, Untoggled, Met, Busy, TogglesAbout,
                TogglesUnderWay, Coming, Applied
<1>2. CASE Next
    <2>1. /\ Met' => ~TogglesAbout'
          /\ \A g, h \in Busy' : g = h
          /\ \A s, t \in TogglesUnderWay' : s = t
        BY <1>2, Steps, MarksToggles
    <2>2. ASSUME NEW t \in Toggles, toggling'[t] \in {"publish", "commit"}
          PROVE  snapshot'[t] = Applied(t)'
        <3>1. t \in TogglesUnderWay'
            BY <2>2 DEF TogglesUnderWay
        <3>2. ~Alone
            BY <2>1, <3>1 DEF Alone, Busy, Met, TogglesAbout
        <3>3. Untoggled
            BY <3>2, UntoggledBefore
        <3>4. CASE UNCHANGED toggleVars
            BY <2>2, <3>3, <3>4 DEF toggleVars, OneAtATime, Applied
        <3>5. ASSUME NEW s \in Toggles,
                     \/ Look(s) \/ FlushToggle(s) \/ ReadBack(s)
                     \/ PublishReactions(s) \/ CommitToggle(s) \/ AbortToggle(s)
              PROVE  snapshot'[t] = Applied(t)'
            <4>1. CASE s # t
                <5>1. /\ toggling'[t] = toggling[t] /\ plan'[t] = plan[t]
                      /\ snapshot'[t] = snapshot[t]
                      /\ reacted' = reacted \/ CommitToggle(s)
                    BY <3>5, <4>1, ToggleFrame DEF Base
                <5>2. ~CommitToggle(s)
                    BY <2>2, <3>3, <4>1, <5>1 DEF OneAtATime, CommitToggle, TogglesUnderWay
                <5>3. QED
                    BY <2>2, <3>3, <5>1, <5>2 DEF OneAtATime, Applied
            <4>2. CASE s = t
                <5>1. ReadBack(t) \/ PublishReactions(t)
                    BY <2>2, <3>5, <4>2 DEF Look, FlushToggle, CommitToggle, AbortToggle,
                       ToggleTo, EndToggle, Base, Typed, ToggleTyped
                <5>2. CASE ReadBack(t)
                    BY <5>2 DEF ReadBack, Applied, Base, Typed, ToggleTyped
                <5>3. CASE PublishReactions(t)
                    BY <3>3, <5>3 DEF PublishReactions, OneAtATime, Applied
                <5>4. QED
                    BY <5>1, <5>2, <5>3
            <4>3. QED
                BY <4>1, <4>2
        <3>6. QED
            BY <3>4, <3>5, Frames DEF ToggleStep
    <2>3. ASSUME NEW g \in Gets, get'[g] # Idle, get'[g].at = "read"
          PROVE  get'[g].by = reacted'
        <3>1. Kept(g)
            BY <2>3, GetsKept DEF Asked, Base
        <3>2. CASE ReadReactions(g)
            BY <3>2, ReadReactionsFacts DEF Base, ReadReactions, serverVars
        <3>3. CASE ReadPage(g)
            BY <2>3, <3>3, ReadPageFacts DEF Base
        <3>4. CASE get[g].at = "read" /\ get'[g].by = get[g].by
            <4>1. g \in Busy /\ Untoggled
                <5>1. g \in Busy
                    BY <3>1 DEF Kept, Busy
                <5>2. QED
                    BY <5>1, UntoggledBefore DEF Alone
            <4>2. get[g].by = reacted /\ TogglesUnderWay = {}
                BY <3>4, <4>1 DEF OneAtATime, Met, TogglesAbout
            <4>3. \A s \in Toggles : ~CommitToggle(s)
                BY <4>2 DEF CommitToggle, TogglesUnderWay
            <4>4. reacted' = reacted
                BY <4>3, Frames, ToggleFrame DEF ToggleStep, toggleVars, Base
            <4>5. QED
                BY <3>4, <4>2, <4>4
        <3>5. QED
            BY <2>3, <3>1, <3>2, <3>3, <3>4 DEF Kept
    <2>4. QED
        BY <2>1, <2>2, <2>3 DEF OneAtATime, Busy
<1>3. QED
    BY <1>1, <1>2

LEMMA OneAtATimeInit == Init => OneAtATime
BY DEF Init, ServerInit, OneAtATime, Met, Busy, TogglesUnderWay

(* Once the payloads on their way are there, the tab shows the reactions   *)
(* v: those of the last update or, when none is on its way, of the list.   *)
(* They are what a toggle that was announced is about to commit or else    *)
(* those of the database.                                                  *)
Shows(l, v) == \A i \in DOMAIN l : l[i].id = Target => l[i].by = v
IsUpdate(k) == feed[k].type = "reaction.update"
Settles(v) ==
    /\ (\A k \in DOMAIN feed : ~IsUpdate(k)) => Shows(list, v)
    /\ \A k \in DOMAIN feed :
          IsUpdate(k) /\ (\A j \in DOMAIN feed : IsUpdate(j) => j <= k) => feed[k].by = v
Due(v) ==
    \/ \E t \in Toggles : toggling[t] = "commit" /\ v = Applied(t)
    \/ v = reacted /\ \A t \in Toggles : toggling[t] # "commit"
AllShown ==
    Untoggled /\ Current =>
        /\ \A v : Due(v) => Settles(v)
        /\ \A g \in Busy : Shows(get[g].existing, reacted)

LEMMA SettlesMessage ==
    ASSUME Typed, OnMessage, NEW v, Settles(v)
    PROVE  Settles(v)'
<1>1. PICK f \in Seq(Payload) : f = feed
    BY DEF Typed, FeedTyped
<1>2. PICK F \in Seq(Payload) : F = feed'
    BY MessageList
<1>3. PICK L \in Nat : /\ DOMAIN F = 1..L /\ DOMAIN f = 1..(L + 1)
                       /\ \A k \in 1..L : F[k] = f[k + 1]
    <2>1. Len(F) \in Nat /\ Len(f) = Len(F) + 1 /\ \A k \in 1..Len(F) : F[k] = f[k + 1]
        BY <1>1, <1>2, MessageList
    <2>2. DOMAIN F = 1..Len(F) /\ DOMAIN f = 1..Len(f)
        OBVIOUS
    <2>3. QED
        BY <2>1, <2>2
<1>4. /\ \A k \in 1..L : k + 1 \in 1..(L + 1)
      /\ \A j \in 1..(L + 1) : j = 1 \/ \E i \in 1..L : j = i + 1
      /\ \A i, k \in 1..L : i <= k => i + 1 <= k + 1
      /\ \A k \in 1..L : 1 <= k + 1
      /\ 1 \in 1..(L + 1) /\ 1 <= 1
    <2>1. \A j \in 1..(L + 1) : j = 1 \/ (j - 1 \in 1..L /\ j = (j - 1) + 1)
        OBVIOUS
    <2>2. QED
        BY <2>1
<1>5. /\ (\A k \in 1..(L + 1) : f[k].type # "reaction.update") => Shows(list, v)
      /\ \A k \in 1..(L + 1) :
            f[k].type = "reaction.update"
            /\ (\A j \in 1..(L + 1) : f[j].type = "reaction.update" => j <= k)
            => f[k].by = v
    BY <1>1, <1>3 DEF Settles, IsUpdate
<1>6. ASSUME NEW k \in 1..L, F[k].type = "reaction.update",
             \A j \in 1..L : F[j].type = "reaction.update" => j <= k
      PROVE  F[k].by = v
    <2>1. \A j \in 1..(L + 1) : f[j].type = "reaction.update" => j <= k + 1
        BY <1>3, <1>4, <1>6
    <2>2. QED
        BY <1>3, <1>4, <1>5, <1>6, <2>1
<1>7. ASSUME \A k \in 1..L : F[k].type # "reaction.update"
      PROVE  Shows(list', v)
    <2>1. \A j \in 1..(L + 1) : f[j].type = "reaction.update" => j = 1
        BY <1>3, <1>4, <1>7
    <2>2. PICK l \in Seq(Entry) : l = list
        BY DEF Typed, TabTyped
    <2>3. PICK K \in Nat : K = Len(l) /\ DOMAIN l = 1..K
        OBVIOUS
    <2>4. PICK m \in Seq(Entry) : m = list' /\ DOMAIN m = 1..Len(m)
        BY MessageList
    <2>5. PICK n \in Payload :
            /\ n = f[1]
            /\ \/ /\ n.type = "message.new" /\ n.id \in New
                  /\ Len(m) = K + 1 /\ m[K + 1].id = n.id
                  /\ \A i \in 1..K : m[i] = l[i]
               \/ /\ n.type = "reaction.update" /\ Len(m) = K
                  /\ \A i \in 1..K : /\ m[i].id = l[i].id
                                     /\ l[i].id = Target => m[i].by = n.by
        BY <1>1, <2>2, <2>3, <2>4, MessageList
    <2>6. CASE n.type = "message.new"
        <3>1. \A i \in 1..K : l[i].id = Target => l[i].by = v
            BY <1>5, <2>1, <2>2, <2>3, <2>5, <2>6 DEF Shows
        <3>2. DOMAIN m = 1..(K + 1) /\ n.id # Target
            BY <2>4, <2>5, <2>6, MessageFacts, MessagesAssumption
        <3>3. \A i \in 1..(K + 1) : i \in 1..K \/ i = K + 1
            OBVIOUS
        <3>4. QED
            BY <2>4, <2>5, <2>6, <3>1, <3>2, <3>3 DEF Shows
    <2>7. CASE n.type = "reaction.update"
        <3>1. n.by = v
            BY <1>4, <1>5, <2>1, <2>5, <2>7
        <3>2. QED
            BY <2>4, <2>5, <2>7, <3>1 DEF Shows
    <2>8. QED
        BY <2>5, <2>6, <2>7
<1>8. QED
    BY <1>2, <1>3, <1>6, <1>7 DEF Settles, IsUpdate

LEMMA SettlesAppended ==
    ASSUME FeedTyped, NEW n \in Payload, feed' = Append(feed, n), list' = list, NEW v,
           \/ n.type = "reaction.update" /\ n.by = v
           \/ n.type # "reaction.update" /\ Settles(v)
    PROVE  Settles(v)'
<1>1. PICK f \in Seq(Payload) : f = feed
    BY DEF FeedTyped
<1>2. PICK L \in Nat : L = Len(f) /\ DOMAIN f = 1..L
    OBVIOUS
<1>3. PICK F : F = feed'
    OBVIOUS
<1>4. DOMAIN F = 1..(L + 1) /\ F[L + 1] = n /\ \A i \in 1..L : F[i] = f[i]
    BY <1>1, <1>2, <1>3
<1>5. /\ \A i \in 1..(L + 1) : i \in 1..L \/ i = L + 1
      /\ \A i \in 1..L : i \in 1..(L + 1) /\ ~(L + 1 <= i)
      /\ L + 1 \in 1..(L + 1)
    OBVIOUS
<1>6. CASE n.type = "reaction.update" /\ n.by = v
    <2>1. ~\A k \in 1..(L + 1) : F[k].type # "reaction.update"
        BY <1>4, <1>5, <1>6
    <2>2. ASSUME NEW k \in 1..(L + 1), \A j \in 1..(L + 1) : F[j].type = "reaction.update" => j <= k
          PROVE  F[k].by = v
        BY <1>4, <1>5, <1>6, <2>2
    <2>3. QED
        BY <1>3, <1>4, <2>1, <2>2 DEF Settles, IsUpdate
<1>7. CASE n.type # "reaction.update" /\ Settles(v)
    <2>1. /\ (\A k \in 1..L : f[k].type # "reaction.update") => Shows(list, v)
          /\ \A k \in 1..L :
                f[k].type = "reaction.update"
                /\ (\A j \in 1..L : f[j].type = "reaction.update" => j <= k)
                => f[k].by = v
        BY <1>1, <1>2, <1>7 DEF Settles, IsUpdate
    <2>2. (\A k \in 1..(L + 1) : F[k].type # "reaction.update") => Shows(list, v)
        BY <1>4, <1>5, <2>1
    <2>3. ASSUME NEW k \in 1..(L + 1), F[k].type = "reaction.update",
                 \A j \in 1..(L + 1) : F[j].type = "reaction.update" => j <= k
          PROVE  F[k].by = v
        <3>1. k \in 1..L
            BY <1>4, <1>5, <1>7, <2>3
        <3>2. \A j \in 1..L : f[j].type = "reaction.update" => j <= k
            BY <1>4, <1>5, <2>3
        <3>3. QED
            BY <1>4, <2>1, <2>3, <3>1, <3>2
    <2>4. QED
        BY <1>3, <1>4, <2>2, <2>3 DEF Settles, IsUpdate
<1>8. QED
    BY <1>6, <1>7

LEMMA SettlesBeside ==
    ASSUME NEW v, Settles(v), UNCHANGED <<list, feed>>
    PROVE  Settles(v)'
BY DEF Settles, IsUpdate

(* While a GET is in progress, the list is what it settles to.             *)
LEMMA Settled ==
    ASSUME OneAtATime, AllShown, Untoggled, Current, ~TogglesAbout
    PROVE  Shows(list, reacted) /\ Settles(reacted)
<1>1. Due(reacted)
    BY DEF Due, TogglesAbout, TogglesUnderWay
<1>2. \A k \in DOMAIN feed : ~IsUpdate(k)
    BY DEF TogglesAbout, Coming, IsUpdate
<1>3. QED
    BY <1>1, <1>2 DEF AllShown, Settles

(* A toggle's step: its payload tells what it will commit.                 *)
LEMMA ShownToggle ==
    ASSUME Base, OneAtATime, AllShown, Untoggled, Current, [Next]_vars, Next, Untoggled',
           Current', NEW s \in Toggles, UNCHANGED tabVars, link' = link,
           \/ Look(s) \/ FlushToggle(s) \/ ReadBack(s)
           \/ PublishReactions(s) \/ CommitToggle(s) \/ AbortToggle(s)
    PROVE  Busy' = {} /\ \A v : Due(v)' => Settles(v)'
<1>1. /\ Met' => ~TogglesAbout'
      /\ \A a, b \in TogglesUnderWay' : a = b
      /\ \A t \in Toggles : toggling[t] = "commit" /\ toggling'[t] = "ended"
                            => reacted' = Applied(t)
    BY Steps, MarksToggles
<1>2. /\ Met => ~TogglesAbout
      /\ \A a, b \in TogglesUnderWay : a = b
      /\ toggling[s] = "publish" => snapshot[s] = Applied(s)
    BY DEF OneAtATime
<1>3. \A t \in Toggles \ {s} : toggling'[t] = toggling[t]
    BY ToggleFrame DEF Base
<1>4. s \in TogglesUnderWay \/ s \in TogglesUnderWay'
    BY DEF Look, FlushToggle, ReadBack, PublishReactions, CommitToggle, AbortToggle, ToggleTo,
           TogglesUnderWay, Base, Typed, ToggleTyped
<1>5. \A t \in Toggles : toggling[t] = "commit" => t = s
    <2>1. \A t \in Toggles \ {s} : toggling[t] = "commit" =>
                t \in TogglesUnderWay /\ t \in TogglesUnderWay'
        BY <1>3 DEF TogglesUnderWay
    <2>2. QED
        BY <1>1, <1>2, <1>4, <2>1
<1>6. Busy' = {} /\ ~Met
    <2>1. Busy' = Busy /\ (Met' <=> Met)
        BY DEF tabVars, Busy, Met
    <2>2. ~Met
        BY <1>1, <1>2, <1>4, <2>1 DEF TogglesAbout
    <2>3. QED
        BY <2>1, <2>2 DEF Met
<1>7. CASE PublishReactions(s)
    <2>1. PICK n \in Payload : n = [type |-> "reaction.update", by |-> snapshot[s]]
        BY DEF Payload, Base, Typed, ToggleTyped
    <2>2. link = "up" /\ FeedTyped
        BY <1>6 DEF Met, Current, Base, Typed, FeedTyped
    <2>3. feed' = Append(feed, n) /\ list' = list /\ n.type = "reaction.update"
          /\ n.by = snapshot[s]
        BY <1>7, <2>1, <2>2 DEF PublishReactions, Publish, tabVars
    <2>4. Settles(snapshot[s])'
        <3>1. PICK v : v = snapshot[s]
            OBVIOUS
        <3>2. Settles(v)'
            BY <2>2, <2>3, <3>1, SettlesAppended
        <3>3. snapshot' = snapshot
            BY <1>7 DEF PublishReactions
        <3>4. QED
            BY <3>1, <3>2, <3>3
    <2>5. toggling'[s] = "commit" /\ Applied(s)' = snapshot[s]
        BY <1>2, <1>7 DEF PublishReactions, ToggleTo, Applied, Base, Typed, ToggleTyped
    <2>6. \A v : Due(v)' => v = snapshot[s]
        BY <1>3, <1>5, <2>5 DEF Due
    <2>7. snapshot' = snapshot
        BY <1>7 DEF PublishReactions
    <2>8. QED
        BY <1>6, <2>4, <2>6, <2>7
<1>8. CASE ~PublishReactions(s)
    <2>1. list' = list /\ feed' = feed
        BY <1>8 DEF Look, FlushToggle, ReadBack, CommitToggle, AbortToggle, tabVars
    <2>2. \A t \in Toggles : toggling'[t] # "commit"
        <3>1. toggling'[s] # "commit"
            BY <1>8 DEF Look, FlushToggle, ReadBack, CommitToggle, AbortToggle, ToggleTo,
                        EndToggle, Base, Typed, ToggleTyped
        <3>2. QED
            BY <1>3, <1>5, <3>1
    <2>3. Due(reacted')
        <3>1. CASE toggling[s] = "commit"
            <4>1. toggling'[s] = "ended"
                BY <1>8, <3>1 DEF Look, FlushToggle, ReadBack, CommitToggle, AbortToggle, ToggleTo,
                            EndToggle, Base, Typed, ToggleTyped
            <4>2. QED
                BY <1>1, <3>1, <4>1 DEF Due
        <3>2. CASE toggling[s] # "commit"
            BY <1>5, <3>2, ToggleFrame DEF CommitToggle, Due, Base
        <3>3. QED
            BY <3>1, <3>2
    <2>4. PICK r : r = reacted'
        OBVIOUS
    <2>5. Settles(r)
        BY <2>3, <2>4 DEF AllShown
    <2>6. Settles(r)'
        BY <2>1, <2>5, SettlesBeside
    <2>7. \A v : Due(v)' => v = r
        BY <2>2, <2>4 DEF Due
    <2>8. QED
        BY <1>6, <2>6, <2>7
<1>9. QED
    BY <1>7, <1>8

(* An answer's page and what an older page is put before show what is in   *)
(* the database.                                                           *)
LEMMA ShownArrive ==
    ASSUME Base, OneAtATime, AllShown, [Next]_vars, Next, Untoggled, Untoggled',
           NEW g \in Gets, Arrive(g), get[g].kind = "latest" \/ Current
    PROVE  Busy' = {} /\ \A v : Due(v)' => Settles(v)'
<1>1. g \in Busy /\ get[g] \in Get /\ get[g].at = "read" /\ get'[g] = Idle /\ Only(g)
    BY EndGetFacts, ArriveList DEF Base, Typed, Arrive, Busy
<1>2. /\ \A h \in Busy : h = g
      /\ get[g].by = reacted /\ ~TogglesAbout
    BY <1>1 DEF OneAtATime, Met
<1>3. Busy' = {}
    BY <1>1, <1>2 DEF Busy, Only
<1>4. feed' = feed /\ reacted' = reacted /\ toggling' = toggling
    BY DEF Arrive, serverVars
<1>5. \A v : Due(v)' => v = reacted
    BY <1>2, <1>4 DEF Due, TogglesAbout, TogglesUnderWay
<1>6. PICK p \in Seq(Message), e \in Seq(Entry) :
        /\ get[g].kind = "latest" => e = <<>>
        /\ get[g].kind # "latest" => e = get[g].existing
        /\ list' \in Seq(Entry) /\ Len(list') = Len(p) + Len(e)
        /\ \A i \in 1..Len(p) : /\ list'[i].id = p[i]
                                /\ p[i] = Target => list'[i].by = get[g].by
        /\ \A i \in 1..Len(e) : list'[Len(p) + i] = e[i]
    BY ArriveList DEF Base
<1>7. Shows(e, reacted)
    <2>1. CASE get[g].kind = "latest"
        BY <1>6, <2>1 DEF Shows
    <2>2. CASE get[g].kind # "latest"
        BY <1>1, <1>6, <2>2 DEF AllShown
    <2>3. QED
        BY <2>1, <2>2
<1>8. Shows(list', reacted)
    <2>1. PICK P \in Nat, E \in Nat : /\ P = Len(p) /\ E = Len(e) /\ DOMAIN e = 1..E
                                      /\ DOMAIN list' = 1..(P + E)
        <3>1. Len(p) \in Nat /\ Len(e) \in Nat /\ DOMAIN e = 1..Len(e)
            OBVIOUS
        <3>2. DOMAIN list' = 1..(Len(p) + Len(e))
            BY <1>6
        <3>3. QED
            BY <3>1, <3>2
    <2>2. \A i \in 1..(P + E) : i \in 1..P \/ \E k \in 1..E : i = P + k
        <3>1. \A i \in 1..(P + E) : i \in 1..P \/ (i - P \in 1..E /\ i = P + (i - P))
            OBVIOUS
        <3>2. QED
            BY <3>1
    <2>3. /\ \A i \in 1..P : list'[i].id = p[i] /\ (p[i] = Target => list'[i].by = reacted)
          /\ \A k \in 1..E : list'[P + k] = e[k]
          /\ \A k \in 1..E : e[k].id = Target => e[k].by = reacted
        BY <1>2, <1>6, <1>7, <2>1 DEF Shows
    <2>4. ASSUME NEW i \in 1..(P + E), list'[i].id = Target
          PROVE  list'[i].by = reacted
        <3>1. CASE i \in 1..P
            BY <2>3, <2>4, <3>1
        <3>2. ASSUME NEW k \in 1..E, i = P + k PROVE list'[i].by = reacted
            <4>1. list'[i] = e[k]
                BY <2>3, <3>2
            <4>2. QED
                BY <2>3, <2>4, <4>1
        <3>3. QED
            BY <2>2, <3>1, <3>2
    <2>5. QED
        BY <2>1, <2>4 DEF Shows
<1>9. PICK v : v = reacted
    OBVIOUS
<1>10. \A k \in DOMAIN feed : ~IsUpdate(k)
    BY <1>2 DEF TogglesAbout, Coming, IsUpdate
<1>11. Shows(list, v)' /\ \A k \in DOMAIN feed' : ~IsUpdate(k)'
    BY <1>4, <1>8, <1>9, <1>10 DEF Shows, IsUpdate
<1>12. Settles(v)'
    BY <1>11 DEF Settles
<1>13. QED
    BY <1>3, <1>5, <1>9, <1>12

LEMMA ShownBeside ==
    ASSUME AllShown, Untoggled, Current, UNCHANGED toggleVars,
           \A v : Settles(v) => Settles(v)'
    PROVE  \A v : Due(v)' => Settles(v)'
<1>1. \A v : Due(v)' <=> Due(v)
    BY DEF Due, Applied, toggleVars
<1>2. QED
    BY <1>1 DEF AllShown

(* The GET of an older page begins with a list that shows what is in the   *)
(* database, which stays so while it is in progress.                       *)
LEMMA ShownGets ==
    ASSUME Base, OneAtATime, AllShown, [Next]_vars, Next, Untoggled, Untoggled', Current,
           Current', UNCHANGED toggleVars, NEW g \in Gets, get'[g] # Idle
    PROVE  Shows(get'[g].existing, reacted')
<1>1. reacted' = reacted
    BY DEF toggleVars
<1>2. CASE Kept(g)
    BY <1>1, <1>2 DEF Kept, AllShown, Busy
<1>3. CASE ScrollUp /\ Asked(g, "older", list)
    <2>1. ~TogglesAbout'
        BY Steps, MarksToggles DEF Met, Busy
    <2>2. ~TogglesAbout
        BY <1>3, <2>1 DEF ScrollUp, serverVars, TogglesAbout, TogglesUnderWay, Coming
    <2>3. QED
        BY <1>1, <1>3, <2>2, Settled DEF Asked
<1>4. QED
    BY <1>2, <1>3, GetsKept, AsksLatest DEF Base

LEMMA AllShownStep ==
    ASSUME Base, OneAtATime, AllShown, [Next]_vars
    PROVE  AllShown'
<1> SUFFICES ASSUME Untoggled', Current'
             PROVE  /\ \A v : Due(v)' => Settles(v)'
                    /\ \A g \in Busy' : Shows(get'[g].existing, reacted')
    BY DEF AllShown, Shows
<1>1. Untoggled
    BY Becomes DEF Untoggled
<1>2. ASSUME NEW g \in Gets, Arrive(g), get[g].kind = "latest" \/ Current
      PROVE  Busy' = {} /\ \A v : Due(v)' => Settles(v)'
    <2>1. Next
        BY <1>2, EndGetFacts DEF Arrive, vars, tabVars, Base, Typed
    <2>2. QED
        BY <1>1, <1>2, <2>1, ShownArrive
<1>3. CASE Current /\ Next
    <2>1. CASE ToggleStep /\ UNCHANGED <<link, tabVars>>
        BY <1>1, <1>3, <2>1, ShownToggle DEF ToggleStep
    <2>2. CASE UNCHANGED toggleVars /\ ~(ToggleStep /\ UNCHANGED <<link, tabVars>>)
        <3>1. \A g \in Busy' : Shows(get'[g].existing, reacted')
            BY <1>1, <1>3, <2>2, ShownGets DEF Busy
        <3>2. CASE \E g \in Gets : Arrive(g)
            BY <1>2, <1>3, <3>2
        <3>3. CASE OnMessage
            BY <1>1, <1>3, <2>2, <3>1, <3>3, SettlesMessage, ShownBeside DEF Base
        <3>4. CASE UNCHANGED <<list, feed>>
            BY <1>1, <1>3, <2>2, <3>1, <3>4, SettlesBeside, ShownBeside
        <3>5. ASSUME NEW m \in New, PublishMessage(m), UNCHANGED tabVars
              PROVE  \A v : Settles(v) => Settles(v)'
            <4>1. PICK n \in Payload : n = [type |-> "message.new", id |-> m]
                BY DEF Payload
            <4>2. n.type # "reaction.update" /\ FeedTyped /\ list' = list
                BY <3>5, <4>1 DEF Base, Typed, tabVars
            <4>3. feed' = IF link = "up" THEN Append(feed, n) ELSE feed
                BY <3>5, <4>1 DEF PublishMessage, Publish
            <4>4. QED
                BY <4>2, <4>3, SettlesAppended, SettlesBeside
        <3>6. CASE SendStep /\ UNCHANGED tabVars
            BY <1>1, <1>3, <2>2, <3>1, <3>4, <3>5, <3>6, ShownBeside
               DEF SendStep, Flush, Store, AbortSend, tabVars
        <3>7. CASE LinkStep
            BY <3>3, <3>4, <3>7 DEF LinkStep, Drop, Reopen, Register, Current, tabVars
        <3>8. CASE GetStep \/ ViewStep
            BY <3>2, <3>4, <3>8, Steps DEF GetStep, ViewStep, ReadPage, ReadReactions, GetFails,
                                           Leave, Enter, ScrollUp, serverVars
        <3>9. QED
            BY <1>3, <2>2, <3>6, <3>7, <3>8, Steps
    <2>3. QED
        BY <1>3, <2>1, <2>2, Steps DEF serverVars, toggleVars
<1>4. CASE Current /\ UNCHANGED vars
    <2>1. UNCHANGED <<list, feed>> /\ UNCHANGED toggleVars /\ get' = get /\ reacted' = reacted
        BY <1>4 DEF vars, serverVars, tabVars, toggleVars
    <2>2. QED
        BY <1>1, <1>4, <2>1, SettlesBeside, ShownBeside DEF AllShown, Busy
<1>5. CASE ~Current
    BY <1>2, <1>5, Becomes
<1>6. QED
    BY <1>3, <1>4, <1>5

LEMMA AllShownInit == Init => AllShown
<1> SUFFICES ASSUME Init PROVE AllShown
    OBVIOUS
<1>1. PICK p \in Pages(Latest) : list = Entries(p, reacted)
    BY DEF Init
<1>2. \A v : Due(v) => v = reacted
    BY DEF Due, Init, ServerInit
<1>3. Shows(list, reacted)
    BY <1>1 DEF Shows, Entries
<1>4. feed = <<>> /\ Busy = {}
    BY DEF Init, ServerInit, Busy
<1>5. QED
    BY <1>2, <1>3, <1>4 DEF AllShown, Settles

(* The reactions on the screen are those of the database, unless toggles   *)
(* crossed one another or a GET, or one failed after it was announced.     *)
THEOREM ReactionsSettle == Spec => []ReactionsRight
<1>1. Base /\ OneAtATime /\ AllShown => ReactionsRight
    <2>1. SUFFICES ASSUME OneAtATime, AllShown, Quiet, crossed \cap Toggles = {}
                   PROVE  Shows(list, reacted)
        BY DEF ReactionsRight, Shows
    <2>2. Untoggled /\ Current /\ ~TogglesAbout
        BY <2>1 DEF Untoggled, Quiet, Current, TogglesAbout, Coming
    <2>3. QED
        BY <2>1, <2>2, Settled
<1>2. Init => Base /\ OneAtATime /\ AllShown
    BY BaseInit, OneAtATimeInit, AllShownInit
<1>3. Base /\ OneAtATime /\ AllShown /\ [Next]_vars => (Base /\ OneAtATime /\ AllShown)'
    BY BaseStep, OneAtATimeStep, AllShownStep
<1>4. QED
    BY <1>1, <1>2, <1>3, PTL DEF Spec
=============================================================================
