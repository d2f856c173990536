--------------------------- MODULE SlackRecord_proofs ---------------------------
EXTENDS SlackRecord, TLAPS, FiniteSetTheorems, SequenceTheorems

-----------------------------------------------------------------------------
(***************************************************************************)
(* The record of a Slack channel proved for anything said there, any       *)
(* speakers and any amount of trouble: a message is told of once and at a  *)
(* place that stays its own, the files follow the rows, what is recorded   *)
(* comes to read as it does in Slack, no fill-in leaves a gap, and a       *)
(* mention is told of.                                                     *)
(* The argument follows, for each message, what is still to be recorded    *)
(* of it: what is being handled, and then the events in their order; what  *)
(* the last of these says is what Slack holds.                             *)
(***************************************************************************)

SaidOnes == [text : Nat, deleted : BOOLEAN, reacted : SUBSET Speakers]
SlackEvents == [type : {"message", "changed", "deleted", "reacted", "unreacted", "fill"}, ts : Nat, x : Nat \cup Speakers]
Items == [ts : TimeStamps, text : Nat, thread : {0} \cup TimeStamps, reacted : (SUBSET Speakers) \cup {NotSaid},
          quiet : BOOLEAN, alone : BOOLEAN, replies : BOOLEAN]
SlackRows == [line : Nat, day : Range(DaySaid), thread : {0} \cup TimeStamps, own : BOOLEAN,
              text : Nat, deleted : BOOLEAN, reacted : SUBSET Speakers]
ToldOnes == [ts : TimeStamps, day : Range(DaySaid), line : Nat]

Gives(e) == e.type \in {"message", "changed"}
EventFits(e) ==
  /\ e.type # "fill" => e.ts \in DOMAIN said
  /\ e.type = "fill" => e.ts = 0
  /\ Gives(e) => e.x \in Nat
  /\ e.type \in {"reacted", "unreacted"} => e.x \in Speakers
ItemOf(k) == handling.items[k]
InHand == DOMAIN handling.items
ToRecord == {k \in InHand : handling.at \in {"write", "thread"} => k > 1}

\* What the variables hold.
SlackTypes ==
  /\ talk \in Talks /\ said \in Seq(SaidOnes) /\ Len(said) <= Len(talk.says)
  /\ socket \in {"down", "away", "open"} /\ posting \in {0} \cup DOMAIN said
  /\ events \in Seq(SlackEvents)
  /\ handling \in [at : {"idle", "next", "write", "thread"}, items : Seq(Items), live : BOOLEAN, raises : BOOLEAN, new : BOOLEAN]
  /\ rows \in [TimeStamps -> SlackRows \cup {NoRow}] /\ DOMAIN days = Range(DaySaid)
  /\ marked \subseteq TimeStamps /\ toldOf \in Seq(ToldOnes) /\ behind \in BOOLEAN

\* Of what was said there are rows, events and a post.
OfWhatWasSaid ==
  /\ \A ts \in TimeStamps : HasRow(ts) => ts \in DOMAIN said
  /\ \A i \in DOMAIN events : EventFits(events[i])
  /\ posting # 0 => Saying(posting).by = "natsumi"
  /\ \A ts \in DOMAIN said : Saying(ts).by = "natsumi" => said[ts].text = 0
  /\ socket # "open" => behind

\* What is being handled: one message, perhaps with its parent before it; or, of a fill-in, the replies of the thread
\* it is at and then the rest of what was said in the channel, in order.
ItemsFit ==
  \A k \in InHand :
    /\ ItemOf(k).ts \in DOMAIN said /\ ItemOf(k).thread \in {0, Saying(ItemOf(k).ts).thread}
    /\ ItemOf(k).replies => ~handling.live /\ Saying(ItemOf(k).ts).thread = 0
    /\ ~handling.live => /\ ItemOf(k).thread = Saying(ItemOf(k).ts).thread
                         /\ ItemOf(k).thread # 0 => HasRow(ItemOf(k).thread)
ItemsApart == \A j, k \in InHand : ItemOf(j).ts = ItemOf(k).ts => j = k
FilledInOrder ==
  ~handling.live => \A j, k \in InHand : (j < k /\ Saying(ItemOf(j).ts).thread = 0) =>
                      Saying(ItemOf(k).ts).thread = 0 /\ ItemOf(j).ts < ItemOf(k).ts
HandlingShape ==
  /\ handling.at = "idle" => handling = AtRest
  /\ handling.at \in {"write", "thread"} => handling.items # <<>> /\ HasRow(First.ts)
  /\ handling.at = "thread" => First.replies
  /\ ItemsFit /\ ItemsApart /\ FilledInOrder
  /\ handling.live => \/ Len(handling.items) <= 1
                      \/ /\ Len(handling.items) = 2 /\ ItemOf(2).alone
                         /\ ItemOf(1).thread = 0 /\ ItemOf(1).ts < ItemOf(2).ts

SlackShape == SlackTypes /\ OfWhatWasSaid /\ HandlingShape

-----------------------------------------------------------------------------
(*                         sets put in an order                            *)

LEMMA OrderedBySteps ==
  ASSUME NEW S, IsFiniteSet(S), NEW rank, \A x \in S : rank[x] \in Int, \A x, y \in S : rank[x] = rank[y] => x = y
  PROVE  LET s == InOrder(S, rank)
             n == Cardinality(S)
             Below(x) == Cardinality({y \in S : rank[y] < rank[x]}) IN
         /\ n \in Nat /\ s \in Seq(S) /\ Len(s) = n /\ DOMAIN s = 1..n
         /\ \A x \in S : Below(x) \in 0..(n - 1) /\ s[Below(x) + 1] = x
         /\ \A i \in 1..n : s[i] \in S
         /\ \A i, j \in 1..n : i < j => rank[s[i]] < rank[s[j]]
<1> DEFINE n == Cardinality(S)
           s == InOrder(S, rank)
           Lower(x) == {y \in S : rank[y] < rank[x]}
           Place(x) == Cardinality(Lower(x))
           p == [x \in S |-> Place(x)]
<1>1. n \in Nat
  BY FS_CardinalityType
<1>2. ASSUME NEW x \in S PROVE IsFiniteSet(Lower(x)) /\ Place(x) \in 0..(n - 1)
  <2>1. IsFiniteSet(S \ {x}) /\ Cardinality(S \ {x}) = n - 1
    BY FS_RemoveElement
  <2>2. Lower(x) \in SUBSET (S \ {x})
    OBVIOUS
  <2>3. IsFiniteSet(Lower(x)) /\ Cardinality(Lower(x)) <= n - 1
    BY <2>1, <2>2, FS_Subset
  <2>4. Cardinality(Lower(x)) \in Nat
    BY <2>3, FS_CardinalityType
  <2> HIDE DEF Lower
  <2> QED BY <1>1, <2>3, <2>4
<1>3. ASSUME NEW x \in S, NEW y \in S, rank[x] < rank[y] PROVE Place(x) < Place(y)
  <2>1. IsFiniteSet(Lower(x) \cup {x}) /\ Cardinality(Lower(x) \cup {x}) = Place(x) + 1
    <3>1. x \notin Lower(x)
      OBVIOUS
    <3> QED BY <1>2, <3>1, FS_AddElement
  <2>2. Lower(x) \cup {x} \in SUBSET Lower(y)
    BY <1>3
  <2>3. IsFiniteSet(Lower(y))
    BY <1>2
  <2>4. Place(x) \in Nat /\ Place(y) \in Nat
    BY <1>2, FS_CardinalityType
  <2> HIDE DEF Lower
  <2>5. Cardinality(Lower(x) \cup {x}) <= Place(y)
    BY <2>2, <2>3, FS_Subset
  <2> HIDE DEF Place
  <2> QED BY <2>1, <2>4, <2>5
<1> HIDE DEF Place, Lower
<1>4. p \in Injection(S, 0..(n - 1))
  <2>1. p \in [S -> 0..(n - 1)]
    BY <1>2
  <2>2. ASSUME NEW x \in S, NEW y \in S, p[x] = p[y] PROVE x = y
    <3>1. Place(x) = Place(y) /\ Place(x) \in 0..(n - 1)
      BY <1>2, <2>2
    <3>2. ~(rank[x] < rank[y])
      BY <1>1, <1>3, <3>1
    <3>3. ~(rank[y] < rank[x])
      BY <1>1, <1>3, <3>1
    <3> QED BY <3>2, <3>3
  <2> QED BY <2>1, <2>2 DEF Injection, IsInjective
<1>5. p \in Surjection(S, 0..(n - 1))
  <2>1. IsFiniteSet(0..(n - 1)) /\ Cardinality(0..(n - 1)) = n
    BY <1>1, FS_Interval
  <2> QED BY <1>4, <2>1, FS_Injection
<1>6. ASSUME NEW i \in 1..n PROVE s[i] \in S /\ Place(s[i]) = i - 1
  <2>1. s[i] = CHOOSE x \in S : Place(x) = i - 1
    BY DEF InOrder, Place, Lower
  <2>2. i - 1 \in 0..(n - 1)
    BY <1>1
  <2>3. \E x \in S : Place(x) = i - 1
    BY <1>5, <2>2 DEF Surjection
  <2> HIDE DEF s
  <2> QED BY <2>1, <2>3
<1>7. s \in [1..n -> S]
  BY <1>6 DEF InOrder
<1>8. s \in Seq(S) /\ Len(s) = n /\ DOMAIN s = 1..n
  BY <1>1, <1>7
<1> HIDE DEF s, n
<1>9. ASSUME NEW x \in S PROVE s[Place(x) + 1] = x
  <2>1. Place(x) + 1 \in 1..n /\ Place(x) \in Int
    BY <1>1, <1>2
  <2>2. s[Place(x) + 1] \in S /\ Place(s[Place(x) + 1]) = Place(x)
    BY <1>6, <2>1
  <2>3. ~(rank[x] < rank[s[Place(x) + 1]])
    BY <1>3, <2>1, <2>2
  <2>4. ~(rank[s[Place(x) + 1]] < rank[x])
    BY <1>3, <2>1, <2>2
  <2> QED BY <2>2, <2>3, <2>4
<1>10. ASSUME NEW i \in 1..n, NEW j \in 1..n, i < j PROVE rank[s[i]] < rank[s[j]]
  <2>1. /\ s[i] \in S /\ Place(s[i]) = i - 1
        /\ s[j] \in S /\ Place(s[j]) = j - 1
    BY <1>6
  <2>2. rank[s[i]] # rank[s[j]]
    BY <1>10, <2>1
  <2>3. ~(rank[s[j]] < rank[s[i]])
    <3>1. ~(Place(s[j]) < Place(s[i]))
      BY <1>10, <2>1
    <3> QED BY <1>3, <2>1, <3>1
  <2> QED BY <2>1, <2>2, <2>3
<1> QED BY <1>1, <1>2, <1>6, <1>8, <1>9, <1>10 DEF Place, Lower, n, s

\* What was said, in the order it was said.
LEMMA SaidInOrder ==
  ASSUME NEW n \in Nat, NEW S \in SUBSET (1..n)
  PROVE  LET s == AsSaid(S) IN
         /\ Cardinality(S) \in Nat /\ s \in Seq(S) /\ Len(s) = Cardinality(S) /\ DOMAIN s = 1..Cardinality(S)
         /\ \A x \in S : \E i \in 1..Cardinality(S) : s[i] = x
         /\ \A i \in 1..Cardinality(S) : s[i] \in S
         /\ \A i, j \in 1..Cardinality(S) : i < j => s[i] < s[j]
<1> DEFINE rank == [ts \in S |-> ts]
<1>1. IsFiniteSet(S)
  <2>1. IsFiniteSet(1..n)
    BY FS_Interval
  <2> QED BY <2>1, FS_Subset
<1>2. \A x \in S : rank[x] \in Int /\ rank[x] = x
  OBVIOUS
<1>3. \A x, y \in S : rank[x] = rank[y] => x = y
  OBVIOUS
<1>4. AsSaid(S) = InOrder(S, rank)
  BY DEF AsSaid
<1> HIDE DEF rank
<1> DEFINE s == InOrder(S, rank)
           Below(x) == Cardinality({y \in S : rank[y] < rank[x]})
<1>5. /\ Cardinality(S) \in Nat /\ s \in Seq(S) /\ Len(s) = Cardinality(S) /\ DOMAIN s = 1..Cardinality(S)
      /\ \A x \in S : Below(x) \in 0..(Cardinality(S) - 1) /\ s[Below(x) + 1] = x
      /\ \A i \in 1..Cardinality(S) : s[i] \in S
      /\ \A i, j \in 1..Cardinality(S) : i < j => rank[s[i]] < rank[s[j]]
  BY <1>1, <1>2, <1>3, OrderedBySteps
<1> HIDE DEF s, Below
<1>6. ASSUME NEW x \in S PROVE \E i \in 1..Cardinality(S) : s[i] = x
  <2>1. Below(x) + 1 \in 1..Cardinality(S)
    BY <1>5
  <2> QED BY <1>5, <2>1
<1>7. \A i, j \in 1..Cardinality(S) : i < j => s[i] < s[j]
  BY <1>2, <1>5
<1>8. AsSaid(S) = s
  BY <1>4 DEF s
<1> QED BY <1>5, <1>6, <1>7, <1>8
-----------------------------------------------------------------------------
(*                       what the variables hold                           *)

LEMMA TalkFacts ==
  ASSUME talk \in Talks
  PROVE  /\ Len(DaySaid) \in Nat /\ TimeStamps = 1..Len(DaySaid)
         /\ talk.says \in Seq(Messages) /\ Len(talk.says) \in Nat /\ Len(talk.says) <= Len(DaySaid)
         /\ \A ts \in 1..Len(talk.says) :
              /\ ts \in TimeStamps /\ Saying(ts) \in Messages /\ Saying(ts).thread \in 0..(ts - 1)
              /\ Saying(ts).thread # 0 => Saying(Saying(ts).thread).thread = 0
<1>1. DaySaid \in Seq(Nat) /\ talk.says \in Seq(Messages) /\ Len(talk.says) <= Len(DaySaid)
  BY SlackAssumption
<1>2. Len(DaySaid) \in Nat /\ TimeStamps = 1..Len(DaySaid) /\ Len(talk.says) \in Nat /\ DOMAIN talk.says = 1..Len(talk.says)
  BY <1>1 DEF TimeStamps
<1>3. ASSUME NEW ts \in 1..Len(talk.says)
      PROVE  /\ ts \in TimeStamps /\ Saying(ts) \in Messages /\ Saying(ts).thread \in 0..(ts - 1)
             /\ Saying(ts).thread # 0 => Saying(Saying(ts).thread).thread = 0
  <2>1. talk.says[ts] \in Messages
    BY <1>1
  <2>2. talk.says[ts].thread \in {0} \cup TimeStamps
    BY <2>1 DEF Messages
  <2>3. talk.says[ts].thread # 0 => talk.says[ts].thread < ts /\ talk.says[talk.says[ts].thread].thread = 0
    BY <1>2, SlackAssumption
  <2> QED BY <1>1, <1>2, <2>1, <2>2, <2>3 DEF Saying
<1> QED BY <1>1, <1>2, <1>3

LEMMA SaidFacts ==
  ASSUME SlackTypes
  PROVE  /\ Len(DaySaid) \in Nat /\ TimeStamps = 1..Len(DaySaid)
         /\ Len(talk.says) \in Nat /\ Len(talk.says) <= Len(DaySaid)
         /\ Len(said) \in Nat /\ DOMAIN said = 1..Len(said) /\ DOMAIN said \subseteq TimeStamps /\ DOMAIN said \subseteq Nat
         /\ \A ts \in DOMAIN said : said[ts] \in SaidOnes
         /\ \A ts \in 1..Len(talk.says) :
              /\ ts \in TimeStamps /\ Saying(ts) \in Messages /\ Saying(ts).thread \in 0..(ts - 1)
              /\ Saying(ts).thread # 0 => Saying(Saying(ts).thread).thread = 0
         /\ \A ts \in DOMAIN said : ts \in 1..Len(talk.says) /\ (Saying(ts).thread # 0 => Saying(ts).thread \in DOMAIN said)
<1>1. said \in Seq(SaidOnes) /\ Len(said) <= Len(talk.says) /\ talk \in Talks
  BY DEF SlackTypes
<1>2. Len(said) \in Nat /\ DOMAIN said = 1..Len(said) /\ \A ts \in DOMAIN said : said[ts] \in SaidOnes
  BY <1>1
<1>3. /\ Len(DaySaid) \in Nat /\ TimeStamps = 1..Len(DaySaid)
      /\ Len(talk.says) \in Nat /\ Len(talk.says) <= Len(DaySaid)
      /\ \A ts \in 1..Len(talk.says) :
              /\ ts \in TimeStamps /\ Saying(ts) \in Messages /\ Saying(ts).thread \in 0..(ts - 1)
              /\ Saying(ts).thread # 0 => Saying(Saying(ts).thread).thread = 0
  BY <1>1, TalkFacts
<1>4. DOMAIN said \subseteq TimeStamps /\ DOMAIN said \subseteq Nat /\ DOMAIN said \subseteq 1..Len(talk.says)
  BY <1>1, <1>2, <1>3
<1>5. ASSUME NEW ts \in DOMAIN said, Saying(ts).thread # 0 PROVE Saying(ts).thread \in DOMAIN said
  <2>1. ts \in 1..Len(said) /\ Saying(ts).thread \in 0..(ts - 1)
    BY <1>2, <1>3, <1>4
  <2> QED BY <1>2, <1>5, <2>1
<1> QED BY <1>2, <1>3, <1>4, <1>5

LEMMA RowFacts ==
  ASSUME SlackTypes, NEW ts \in TimeStamps
  PROVE  /\ HasRow(ts) => rows[ts] \in SlackRows
         /\ rows[ts] \in SlackRows => HasRow(ts)
<1>1. NoRow \notin SlackRows
  <2>1. DOMAIN NoRow = {"line"}
    BY DEF NoRow
  <2>2. \A r \in SlackRows : "day" \in DOMAIN r
    BY DEF SlackRows
  <2> QED BY <2>1, <2>2
<1>2. rows[ts] \in SlackRows \cup {NoRow}
  BY DEF SlackTypes
<1> QED BY <1>1, <1>2 DEF HasRow

LEMMA HandlingFacts ==
  ASSUME SlackTypes
  PROVE  /\ handling.items \in Seq(Items) /\ Len(handling.items) \in Nat /\ InHand = 1..Len(handling.items)
         /\ \A k \in InHand : ItemOf(k) \in Items
         /\ handling.items # <<>> <=> Len(handling.items) >= 1
         /\ handling.items # <<>> => First = ItemOf(1) /\ 1 \in InHand
         /\ handling.at \in {"idle", "next", "write", "thread"} /\ handling.live \in BOOLEAN
         /\ handling.raises \in BOOLEAN /\ handling.new \in BOOLEAN
  BY DEF SlackTypes, InHand, ItemOf, First

LEMMA Queued ==
  ASSUME events \in Seq(SlackEvents), NEW e \in SlackEvents, events' = Append(events, e)
  PROVE  /\ events' \in Seq(SlackEvents) /\ Len(events) \in Nat /\ DOMAIN events = 1..Len(events)
         /\ DOMAIN events' = 1..(Len(events) + 1) /\ Len(events') = Len(events) + 1
         /\ \A i \in DOMAIN events : events'[i] = events[i]
         /\ events'[Len(events) + 1] = e
  OBVIOUS

LEMMA HeadTaken ==
  ASSUME events \in Seq(SlackEvents), events # <<>>, events' = Tail(events)
  PROVE  /\ events' \in Seq(SlackEvents) /\ Len(events) \in Nat /\ DOMAIN events = 1..Len(events)
         /\ Len(events') = Len(events) - 1 /\ DOMAIN events' = 1..(Len(events) - 1)
         /\ 1 \in DOMAIN events /\ Head(events) = events[1] /\ events[1] \in SlackEvents
         /\ \A i \in DOMAIN events' : i + 1 \in DOMAIN events /\ events'[i] = events[i + 1]
         /\ \A i \in DOMAIN events : i # 1 => i - 1 \in DOMAIN events' /\ events'[i - 1] = events[i]
<1>1. /\ events' \in Seq(SlackEvents) /\ Len(events) \in Nat /\ DOMAIN events = 1..Len(events)
      /\ Len(events') = Len(events) - 1 /\ DOMAIN events' = 1..(Len(events) - 1)
      /\ 1 \in DOMAIN events /\ Head(events) = events[1] /\ events[1] \in SlackEvents
  OBVIOUS
<1>2. \A i \in DOMAIN events' : i + 1 \in DOMAIN events /\ events'[i] = events[i + 1]
  BY <1>1, HeadTailProperties
<1>3. ASSUME NEW i \in DOMAIN events, i # 1 PROVE i - 1 \in DOMAIN events' /\ events'[i - 1] = events[i]
  <2>1. i - 1 \in DOMAIN events' /\ (i - 1) + 1 = i
    BY <1>1, <1>3
  <2> QED BY <1>2, <2>1
<1> QED BY <1>1, <1>2, <1>3

\* A longer queue, or a shorter one, holds events of what was said.
LEMMA QueuedFits ==
  ASSUME SlackTypes, \A i \in DOMAIN events : EventFits(events[i]), DOMAIN said \subseteq DOMAIN said',
         NEW e \in SlackEvents, events' = Append(events, e),
         e.type # "fill" => e.ts \in DOMAIN said', e.type = "fill" => e.ts = 0,
         Gives(e) => e.x \in Nat, e.type \in {"reacted", "unreacted"} => e.x \in Speakers
  PROVE  events' \in Seq(SlackEvents) /\ (\A i \in DOMAIN events : EventFits(events[i]))'
<1>1. /\ events' \in Seq(SlackEvents) /\ Len(events) \in Nat /\ DOMAIN events = 1..Len(events)
      /\ DOMAIN events' = 1..(Len(events) + 1)
      /\ \A i \in DOMAIN events : events'[i] = events[i]
      /\ events'[Len(events) + 1] = e
  BY Queued DEF SlackTypes
<1>2. ASSUME NEW i \in DOMAIN events' PROVE EventFits(events[i])'
  <2>1. CASE i \in DOMAIN events
    BY <1>1, <2>1 DEF EventFits, Gives
  <2>2. CASE i = Len(events) + 1
    BY <1>1, <2>2 DEF EventFits, Gives
  <2> QED BY <1>1, <2>1, <2>2
<1> QED BY <1>1, <1>2

LEMMA TakenFits ==
  ASSUME SlackTypes, \A i \in DOMAIN events : EventFits(events[i]), said' = said, events # <<>>, events' = Tail(events)
  PROVE  events' \in Seq(SlackEvents) /\ (\A i \in DOMAIN events : EventFits(events[i]))'
<1>1. /\ events' \in Seq(SlackEvents)
      /\ \A i \in DOMAIN events' : i + 1 \in DOMAIN events /\ events'[i] = events[i + 1]
  BY HeadTaken DEF SlackTypes
<1> QED BY <1>1 DEF EventFits, Gives

\* What is being handled stays as it is while the channel goes on.
LEMMA HandlingStays ==
  ASSUME HandlingShape, UNCHANGED <<handling, rows, talk>>, DOMAIN said \subseteq DOMAIN said'
  PROVE  HandlingShape'
<1>1. InHand' = InHand /\ ~(handling.live # handling'.live) /\ First' = First /\ \A k : ItemOf(k)' = ItemOf(k)
  BY DEF InHand, ItemOf, First
<1>2. \A ts : Saying(ts)' = Saying(ts) /\ (HasRow(ts)' <=> HasRow(ts))
  BY DEF Saying, HasRow
<1>3. ItemsFit'
  BY <1>1, <1>2 DEF ItemsFit, HandlingShape
<1>4. ItemsApart' /\ FilledInOrder'
  BY <1>1, <1>2 DEF ItemsApart, FilledInOrder, HandlingShape
<1> QED BY <1>1, <1>2, <1>3, <1>4 DEF HandlingShape, AtRest

-----------------------------------------------------------------------------
(*                    what Slack does keeps the shape                      *)

LEMMA EventHeard ==
  ASSUME SlackTypes, \A i \in DOMAIN events : EventFits(events[i]), DOMAIN said \subseteq DOMAIN said',
         NEW type \in {"message", "changed", "deleted", "reacted", "unreacted"}, NEW ts \in DOMAIN said', ts \in Nat,
         NEW x \in Nat \cup Speakers, type \in {"message", "changed"} => x \in Nat, type \in {"reacted", "unreacted"} => x \in Speakers,
         SlackSends(type, ts, x)
  PROVE  events' \in Seq(SlackEvents) /\ (\A i \in DOMAIN events : EventFits(events[i]))'
<1> DEFINE e == Event(type, ts, x)
<1>1. e \in SlackEvents /\ e.type = type /\ e.ts = ts /\ e.x = x
  BY DEF Event, SlackEvents
<1>2. CASE socket = "open"
  <2>1. events' = Append(events, e)
    BY <1>2 DEF SlackSends
  <2>2. /\ e.type # "fill" => e.ts \in DOMAIN said'
        /\ e.type = "fill" => e.ts = 0
        /\ Gives(e) => e.x \in Nat
        /\ e.type \in {"reacted", "unreacted"} => e.x \in Speakers
    BY <1>1 DEF Gives
  <2> HIDE DEF e
  <2> QED BY <1>1, <2>1, <2>2, QueuedFits
<1>3. CASE socket # "open"
  <2>1. events' = events
    BY <1>3 DEF SlackSends
  <2> QED BY <2>1 DEF SlackTypes, EventFits, Gives
<1> QED BY <1>2, <1>3

LEMMA SaidMore ==
  ASSUME SlackTypes, NEW by, Says(by)
  PROVE  LET ts == Len(said) + 1 IN
         /\ ts \in 1..Len(talk.says) /\ Saying(ts).by = by /\ ts \in Nat /\ ts \notin DOMAIN said
         /\ said' \in Seq(SaidOnes) /\ Len(said') = ts /\ DOMAIN said' = 1..ts /\ DOMAIN said' = DOMAIN said \cup {ts}
         /\ said'[ts] = [text |-> 0, deleted |-> FALSE, reacted |-> {}]
         /\ \A t \in DOMAIN said : said'[t] = said[t]
         /\ SlackSends("message", ts, 0)
<1> DEFINE new == [text |-> 0, deleted |-> FALSE, reacted |-> {}]
<1>1. new \in SaidOnes
  BY DEF SaidOnes
<1>2. /\ Len(said) \in Nat /\ Len(talk.says) \in Nat /\ DOMAIN said = 1..Len(said)
  BY SaidFacts
<1>3. Len(said) < Len(talk.says) /\ Saying(Len(said) + 1).by = by /\ said' = Append(said, new) /\ SlackSends("message", Len(said) + 1, 0)
  BY DEF Says
<1> HIDE DEF new
<1>4. said \in Seq(SaidOnes)
  BY DEF SlackTypes
<1>5. /\ said' \in Seq(SaidOnes) /\ Len(said') = Len(said) + 1 /\ DOMAIN said' = 1..(Len(said) + 1)
      /\ said'[Len(said) + 1] = new /\ \A t \in DOMAIN said : said'[t] = said[t]
  BY <1>1, <1>3, <1>4
<1>6. 1..(Len(said) + 1) = DOMAIN said \cup {Len(said) + 1} /\ Len(said) + 1 \notin DOMAIN said
  BY <1>2
<1> QED BY <1>2, <1>3, <1>5, <1>6 DEF new

LEMMA SaysShape ==
  ASSUME SlackShape, NEW by, Says(by), posting' = posting \/ (by = "natsumi" /\ posting' = Len(said) + 1),
         UNCHANGED <<talk, socket, handling, theRecord, behind>>
  PROVE  SlackShape'
<1> DEFINE ts == Len(said) + 1
<1> USE DEF SlackShape
<1>1. /\ ts \in 1..Len(talk.says) /\ Saying(ts).by = by /\ ts \in Nat /\ ts \notin DOMAIN said
      /\ said' \in Seq(SaidOnes) /\ Len(said') = ts /\ DOMAIN said' = 1..ts /\ DOMAIN said' = DOMAIN said \cup {ts}
      /\ said'[ts] = [text |-> 0, deleted |-> FALSE, reacted |-> {}]
      /\ \A t \in DOMAIN said : said'[t] = said[t]
      /\ SlackSends("message", ts, 0)
  BY SaidMore
<1>2. rows' = rows /\ days' = days /\ marked' = marked /\ toldOf' = toldOf /\ talk' = talk /\ handling' = handling
      /\ socket' = socket /\ behind' = behind
  BY DEF theRecord
<1> HIDE DEF ts
<1>3. events' \in Seq(SlackEvents) /\ (\A i \in DOMAIN events : EventFits(events[i]))'
  BY <1>1, EventHeard DEF OfWhatWasSaid
<1>4. SlackTypes'
  <2>1. Len(said') <= Len(talk'.says)
    BY <1>1, <1>2
  <2>2. posting' \in {0} \cup DOMAIN said'
    BY <1>1 DEF SlackTypes, ts
  <2> QED BY <1>1, <1>2, <1>3, <2>1, <2>2 DEF SlackTypes
<1>5. OfWhatWasSaid'
  <2>1. \A t \in TimeStamps : HasRow(t)' => t \in DOMAIN said'
    BY <1>1, <1>2 DEF OfWhatWasSaid, HasRow
  <2>2. posting' # 0 => Saying(posting)'.by = "natsumi"
    BY <1>1, <1>2 DEF OfWhatWasSaid, Saying, ts
  <2>3. ASSUME NEW t \in DOMAIN said', Saying(t)'.by = "natsumi" PROVE said'[t].text = 0
    <3>1. CASE t = ts
      BY <1>1, <3>1
    <3>2. CASE t \in DOMAIN said
      BY <1>1, <1>2, <2>3, <3>2 DEF OfWhatWasSaid, Saying
    <3> QED BY <1>1, <3>1, <3>2
  <2>4. socket' # "open" => behind'
    BY <1>2 DEF OfWhatWasSaid
  <2> QED BY <1>3, <2>1, <2>2, <2>3, <2>4 DEF OfWhatWasSaid
<1>6. HandlingShape'
  BY <1>1, <1>2, HandlingStays
<1> QED BY <1>4, <1>5, <1>6

LEMMA OwnShape == ASSUME SlackShape, RecordOwn PROVE SlackShape'
<1> USE DEF SlackShape
<1> DEFINE e == Event("message", posting, 0)
<1>1. posting \in DOMAIN said /\ posting \in Nat
  BY SaidFacts DEF RecordOwn, SlackTypes
<1>2. e \in SlackEvents /\ e.type = "message" /\ e.ts = posting /\ e.x = 0
  BY <1>1 DEF Event, SlackEvents
<1>3. /\ events' = Append(events, e) /\ posting' = 0 /\ UNCHANGED <<talk, said, socket, handling, rows, days, marked, toldOf, behind>>
  BY DEF RecordOwn, channel, theRecord
<1> HIDE DEF e
<1>4. events' \in Seq(SlackEvents) /\ (\A i \in DOMAIN events : EventFits(events[i]))'
  <2>1. DOMAIN said \subseteq DOMAIN said' /\ e.type # "fill" /\ e.ts \in DOMAIN said' /\ (Gives(e) => e.x \in Nat)
        /\ e.type \notin {"reacted", "unreacted"}
    BY <1>1, <1>2, <1>3
  <2> QED BY <1>2, <1>3, <2>1, QueuedFits DEF OfWhatWasSaid
<1>5. SlackTypes'
  BY <1>3, <1>4 DEF SlackTypes
<1>6. OfWhatWasSaid'
  BY <1>3, <1>4 DEF OfWhatWasSaid, HasRow, Saying
<1>7. HandlingShape'
  BY <1>3, HandlingStays
<1> QED BY <1>5, <1>6, <1>7

LEMMA AlteredShape ==
  ASSUME SlackShape, NEW ts \in DOMAIN said, NEW message \in SaidOnes, Saying(ts).by = "natsumi" => message.text = said[ts].text,
         NEW type \in {"changed", "deleted", "reacted", "unreacted"}, NEW x \in Nat \cup Speakers,
         type = "changed" => x \in Nat, type \in {"reacted", "unreacted"} => x \in Speakers,
         Altered(ts, message, type, x)
  PROVE  SlackShape' /\ DOMAIN said' = DOMAIN said
<1> USE DEF SlackShape
<1>1. /\ said' = [said EXCEPT ![ts] = message] /\ SlackSends(type, ts, x)
      /\ UNCHANGED <<talk, socket, posting, handling, rows, days, marked, toldOf, behind>>
  BY DEF Altered, theRecord
<1>2. /\ said' \in Seq(SaidOnes) /\ Len(said') = Len(said) /\ DOMAIN said' = DOMAIN said
      /\ \A t \in DOMAIN said : said'[t] = IF t = ts THEN message ELSE said[t]
  BY <1>1 DEF SlackTypes
<1>3. ts \in Nat
  BY SaidFacts
<1>4. events' \in Seq(SlackEvents) /\ (\A i \in DOMAIN events : EventFits(events[i]))'
  <2>1. DOMAIN said \subseteq DOMAIN said' /\ ts \in DOMAIN said' /\ type \in {"message", "changed", "deleted", "reacted", "unreacted"}
        /\ (type \in {"message", "changed"} => x \in Nat)
    BY <1>2
  <2> QED BY <1>1, <1>3, <2>1, EventHeard DEF OfWhatWasSaid
<1>5. SlackTypes'
  BY <1>1, <1>2, <1>4 DEF SlackTypes
<1>6. OfWhatWasSaid'
  BY <1>1, <1>2, <1>4 DEF OfWhatWasSaid, HasRow, Saying
<1>7. HandlingShape'
  BY <1>1, <1>2, HandlingStays
<1> QED BY <1>2, <1>5, <1>6, <1>7

\* What each of them says of the message.
LEMMA Alterations ==
  ASSUME SlackTypes, NEW ts \in DOMAIN said
  PROVE  /\ [said[ts] EXCEPT !.text = @ + 1] = [text |-> said[ts].text + 1, deleted |-> said[ts].deleted, reacted |-> said[ts].reacted]
         /\ [said[ts] EXCEPT !.deleted = TRUE] = [text |-> said[ts].text, deleted |-> TRUE, reacted |-> said[ts].reacted]
         /\ \A S : [said[ts] EXCEPT !.reacted = S] = [text |-> said[ts].text, deleted |-> said[ts].deleted, reacted |-> S]
         /\ said[ts].text \in Nat /\ said[ts].deleted \in BOOLEAN /\ said[ts].reacted \in SUBSET Speakers
<1>1. ASSUME NEW m \in SaidOnes
      PROVE  /\ [m EXCEPT !.text = @ + 1] = [text |-> m.text + 1, deleted |-> m.deleted, reacted |-> m.reacted]
             /\ [m EXCEPT !.deleted = TRUE] = [text |-> m.text, deleted |-> TRUE, reacted |-> m.reacted]
             /\ \A S : [m EXCEPT !.reacted = S] = [text |-> m.text, deleted |-> m.deleted, reacted |-> S]
             /\ m.text \in Nat /\ m.deleted \in BOOLEAN /\ m.reacted \in SUBSET Speakers
  <2>1. m.text \in Nat /\ m.deleted \in BOOLEAN /\ m.reacted \in SUBSET Speakers
    BY DEF SaidOnes
  <2>2. [m EXCEPT !.text = @ + 1] = [text |-> m.text + 1, deleted |-> m.deleted, reacted |-> m.reacted]
    BY DEF SaidOnes
  <2>3. [m EXCEPT !.deleted = TRUE] = [text |-> m.text, deleted |-> TRUE, reacted |-> m.reacted]
    <3>1. ASSUME NEW d PROVE [m EXCEPT !.deleted = d] = [text |-> m.text, deleted |-> d, reacted |-> m.reacted]
      BY DEF SaidOnes
    <3> QED BY <3>1
  <2>4. ASSUME NEW S PROVE [m EXCEPT !.reacted = S] = [text |-> m.text, deleted |-> m.deleted, reacted |-> S]
    BY DEF SaidOnes
  <2> QED BY <2>1, <2>2, <2>3, <2>4
<1>2. said[ts] \in SaidOnes
  BY SaidFacts
<1> QED BY <1>1, <1>2

LEMMA EditsShape == ASSUME SlackShape, NEW ts \in DOMAIN said, SlackEdits(ts) PROVE SlackShape'
<1> DEFINE m == [text |-> said[ts].text + 1, deleted |-> said[ts].deleted, reacted |-> said[ts].reacted]
<1>1. SlackTypes
  BY DEF SlackShape
<1>2. said[ts].text \in Nat /\ said[ts].deleted \in BOOLEAN /\ said[ts].reacted \in SUBSET Speakers
  BY <1>1, Alterations
<1>3. m \in SaidOnes /\ Saying(ts).by # "natsumi" /\ said[ts].text + 1 \in Nat
  BY <1>2 DEF SaidOnes, SlackEdits
<1>4. Altered(ts, m, "changed", said[ts].text + 1)
  BY <1>1, Alterations DEF SlackEdits
<1> HIDE DEF m
<1> QED BY <1>3, <1>4, AlteredShape

LEMMA DeletesShape == ASSUME SlackShape, NEW ts \in DOMAIN said, SlackDeletes(ts) PROVE SlackShape'
<1> DEFINE m == [text |-> said[ts].text, deleted |-> TRUE, reacted |-> said[ts].reacted]
<1>1. SlackTypes
  BY DEF SlackShape
<1>2. said[ts].text \in Nat /\ said[ts].deleted \in BOOLEAN /\ said[ts].reacted \in SUBSET Speakers
  BY <1>1, Alterations
<1>3. m \in SaidOnes /\ m.text = said[ts].text
  BY <1>2 DEF SaidOnes
<1>4. Altered(ts, m, "deleted", 0)
  BY <1>1, Alterations DEF SlackDeletes
<1> HIDE DEF m
<1> QED BY <1>3, <1>4, AlteredShape

LEMMA ReactsShape == ASSUME SlackShape, NEW ts \in DOMAIN said, NEW who \in Speakers, SlackReacts(ts, who) PROVE SlackShape'
<1> DEFINE m(S) == [text |-> said[ts].text, deleted |-> said[ts].deleted, reacted |-> S]
<1>1. SlackTypes
  BY DEF SlackShape
<1>2. said[ts].text \in Nat /\ said[ts].deleted \in BOOLEAN /\ said[ts].reacted \in SUBSET Speakers
  BY <1>1, Alterations
<1>3. \A S \in SUBSET Speakers : m(S) \in SaidOnes /\ m(S).text = said[ts].text
  BY <1>2 DEF SaidOnes
<1>4. \/ Altered(ts, m(said[ts].reacted \ {who}), "unreacted", who)
      \/ Altered(ts, m(said[ts].reacted \cup {who}), "reacted", who)
  BY <1>1, Alterations, ZenonT(30) DEF SlackReacts
<1>5. said[ts].reacted \ {who} \in SUBSET Speakers /\ said[ts].reacted \cup {who} \in SUBSET Speakers
  BY <1>2
<1> HIDE DEF m
<1>6. m(said[ts].reacted \ {who}) \in SaidOnes /\ m(said[ts].reacted \cup {who}) \in SaidOnes
      /\ m(said[ts].reacted \ {who}).text = said[ts].text /\ m(said[ts].reacted \cup {who}).text = said[ts].text
  BY <1>3, <1>5
<1>7. CASE Altered(ts, m(said[ts].reacted \ {who}), "unreacted", who)
  BY <1>6, <1>7, AlteredShape
<1>8. CASE Altered(ts, m(said[ts].reacted \cup {who}), "reacted", who)
  BY <1>6, <1>8, AlteredShape
<1> QED BY <1>4, <1>7, <1>8

LEMMA RepeatsShape == ASSUME SlackShape, NEW i \in DOMAIN events, SlackRepeats(i) PROVE SlackShape'
<1> USE DEF SlackShape
<1>1. /\ events' = Append(events, events[i]) /\ events[i].type # "fill"
      /\ UNCHANGED <<talk, said, socket, posting, handling, rows, days, marked, toldOf, behind>>
  BY DEF SlackRepeats, channel, theRecord
<1>2. events[i] \in SlackEvents /\ EventFits(events[i])
  BY DEF SlackTypes, OfWhatWasSaid
<1>3. events' \in Seq(SlackEvents) /\ (\A j \in DOMAIN events : EventFits(events[j]))'
  <2>1. DOMAIN said \subseteq DOMAIN said' /\ events[i].ts \in DOMAIN said' /\ (Gives(events[i]) => events[i].x \in Nat)
        /\ (events[i].type \in {"reacted", "unreacted"} => events[i].x \in Speakers)
    BY <1>1, <1>2 DEF EventFits
  <2> QED BY <1>1, <1>2, <2>1, QueuedFits DEF OfWhatWasSaid
<1>4. SlackTypes'
  BY <1>1, <1>3 DEF SlackTypes
<1>5. OfWhatWasSaid'
  BY <1>1, <1>3 DEF OfWhatWasSaid, HasRow, Saying
<1>6. HandlingShape'
  BY <1>1, HandlingStays
<1> QED BY <1>4, <1>5, <1>6

LEMMA SocketShape == ASSUME SlackShape, SlackStarts \/ SlackConnects \/ SocketCloses PROVE SlackShape'
<1> USE DEF SlackShape
<1>1. UNCHANGED <<talk, said, posting, handling, rows, days, marked, toldOf>>
  BY DEF SlackStarts, SlackConnects, SocketCloses, theRecord
<1>2. socket' \in {"down", "away", "open"} /\ behind' \in BOOLEAN /\ (socket' # "open" => behind')
  BY DEF SlackStarts, SlackConnects, SocketCloses, notes, SlackTypes, OfWhatWasSaid
<1>3. events' \in Seq(SlackEvents) /\ (\A j \in DOMAIN events : EventFits(events[j]))'
  <2>1. CASE SlackConnects
    <3> DEFINE e == Event("fill", 0, 0)
    <3>1. e \in SlackEvents /\ e.type = "fill" /\ e.ts = 0
      BY DEF Event, SlackEvents
    <3>2. events' = Append(events, e) /\ DOMAIN said \subseteq DOMAIN said'
      BY <1>1, <2>1 DEF SlackConnects
    <3> HIDE DEF e
    <3>3. ~Gives(e) /\ e.type \notin {"reacted", "unreacted"}
      BY <3>1 DEF Gives
    <3> QED BY <3>1, <3>2, <3>3, QueuedFits DEF OfWhatWasSaid
  <2>2. CASE SlackStarts \/ SocketCloses
    BY <1>1, <2>2 DEF SlackStarts, SocketCloses, OfWhatWasSaid, SlackTypes, EventFits, Gives
  <2> QED BY <2>1, <2>2
<1>4. SlackTypes'
  BY <1>1, <1>2, <1>3 DEF SlackTypes
<1>5. OfWhatWasSaid'
  BY <1>1, <1>2, <1>3 DEF OfWhatWasSaid, HasRow, Saying
<1>6. HandlingShape'
  BY <1>1, HandlingStays
<1> QED BY <1>4, <1>5, <1>6

LEMMA AtRestFits ==
  /\ AtRest \in [at : {"idle", "next", "write", "thread"}, items : Seq(Items), live : BOOLEAN, raises : BOOLEAN, new : BOOLEAN]
  /\ (handling = AtRest) => HandlingShape /\ InHand = {} /\ ToRecord = {}
<1>1. <<>> \in Seq(Items) /\ DOMAIN <<>> = {} /\ Len(<<>>) = 0
  OBVIOUS
<1>2. AtRest.items = <<>> /\ AtRest.at = "idle"
  BY DEF AtRest
<1>3. AtRest \in [at : {"idle", "next", "write", "thread"}, items : Seq(Items), live : BOOLEAN, raises : BOOLEAN, new : BOOLEAN]
  BY <1>1 DEF AtRest
<1>4. ASSUME handling = AtRest PROVE HandlingShape /\ InHand = {} /\ ToRecord = {}
  <2>1. InHand = {} /\ Len(handling.items) = 0 /\ handling.at = "idle"
    BY <1>1, <1>2, <1>4 DEF InHand
  <2> QED BY <1>4, <2>1 DEF HandlingShape, ItemsFit, ItemsApart, FilledInOrder, ToRecord
<1> QED BY <1>3, <1>4

LEMMA DiesShape == ASSUME SlackShape, SlackDies PROVE SlackShape'
<1> USE DEF SlackShape
<1>1. /\ UNCHANGED <<talk, said, rows, days, marked, toldOf>> /\ socket' = "down" /\ behind' = TRUE
      /\ events' = <<>> /\ handling' = AtRest /\ posting' = 0
  BY DEF SlackDies, theRecord
<1>2. AtRest \in [at : {"idle", "next", "write", "thread"}, items : Seq(Items), live : BOOLEAN, raises : BOOLEAN, new : BOOLEAN]
      /\ ((handling = AtRest) => HandlingShape)'
  BY AtRestFits, PTL
<1>3. SlackTypes'
  BY <1>1, <1>2 DEF SlackTypes
<1>4. OfWhatWasSaid'
  BY <1>1 DEF OfWhatWasSaid, HasRow, Saying
<1> QED BY <1>1, <1>2, <1>3, <1>4

-----------------------------------------------------------------------------
(*                  what natsumi takes up keeps the shape                  *)

\* A finite set of naturals has a greatest element.
LEMMA GreatestOfFinite ==
  ASSUME NEW S \in SUBSET Nat, IsFiniteSet(S), S # {}
  PROVE  Max(S) \in S /\ \A x \in S : x <= Max(S)
<1> DEFINE rank == [x \in S |-> x]
           n == Cardinality(S)
           s == InOrder(S, rank)
           Below(x) == Cardinality({y \in S : rank[y] < rank[x]})
<1>1. (\A x \in S : rank[x] \in Int /\ rank[x] = x) /\ (\A x, y \in S : rank[x] = rank[y] => x = y)
  OBVIOUS
<1> HIDE DEF rank
<1>2. /\ n \in Nat /\ s \in Seq(S) /\ Len(s) = n /\ DOMAIN s = 1..n
      /\ \A x \in S : Below(x) \in 0..(n - 1) /\ s[Below(x) + 1] = x
      /\ \A i \in 1..n : s[i] \in S
      /\ \A i, j \in 1..n : i < j => rank[s[i]] < rank[s[j]]
  BY <1>1, OrderedBySteps
<1> HIDE DEF n, s, Below
<1>3. PICK z \in S : TRUE
  OBVIOUS
<1>4. n \in 1..n /\ s[n] \in S
  BY <1>2, <1>3
<1>5. ASSUME NEW x \in S PROVE x <= s[n]
  <2> DEFINE i == Below(x) + 1
  <2>1. i \in 1..n /\ s[i] = x
    BY <1>2
  <2> HIDE DEF i
  <2>2. CASE i = n
    BY <1>4, <2>1, <2>2
  <2>3. CASE i < n
    <3>1. rank[s[i]] < rank[s[n]]
      BY <1>2, <1>4, <2>1, <2>3
    <3>2. rank[s[i]] = x /\ rank[s[n]] = s[n] /\ x \in Nat /\ s[n] \in Nat
      BY <1>1, <1>4, <2>1
    <3> QED BY <3>1, <3>2
  <2> QED BY <1>2, <2>1, <2>2, <2>3
<1>6. \E x \in S : \A y \in S : x >= y
  BY <1>4, <1>5
<1>7. Max(S) \in S /\ \A y \in S : Max(S) >= y
  BY <1>6 DEF Max
<1> QED BY <1>7

\* The next line of a day is after every line of it.
LEMMA NextLine ==
  ASSUME SlackTypes, NEW day
  PROVE  LET line == Max({0} \cup {rows[ts].line + 1 : ts \in RowsOf(rows, day)}) IN
         line \in Nat /\ \A ts \in RowsOf(rows, day) : rows[ts].line < line
<1> DEFINE R == RowsOf(rows, day)
           L == {rows[ts].line + 1 : ts \in R}
           f == [ts \in R |-> rows[ts].line + 1]
<1>1. \A ts \in R : ts \in TimeStamps /\ rows[ts] \in SlackRows
  BY RowFacts DEF RowsOf, HasRow
<1>2. \A ts \in R : rows[ts].line \in Nat
  BY <1>1 DEF SlackRows
<1>3. IsFiniteSet(R)
  <2>1. IsFiniteSet(TimeStamps)
    <3>1. TimeStamps = 1..Len(DaySaid) /\ Len(DaySaid) \in Nat
      BY SaidFacts
    <3> QED BY <3>1, FS_Interval
  <2> QED BY <2>1, FS_Subset DEF RowsOf
<1> HIDE DEF R
<1>4. IsFiniteSet(L)
  <2>1. f \in Surjection(R, L)
    BY DEF Surjection
  <2> HIDE DEF f, L
  <2> QED BY <1>3, <2>1, FS_Surjection
<1>5. {0} \cup L \in SUBSET Nat /\ {0} \cup L # {}
  BY <1>2
<1> HIDE DEF L
<1>6. IsFiniteSet({0} \cup L)
  BY <1>4, FS_Singleton, FS_Union
<1>7. Max({0} \cup L) \in {0} \cup L /\ \A x \in {0} \cup L : x <= Max({0} \cup L)
  BY <1>5, <1>6, GreatestOfFinite
<1>8. ASSUME NEW ts \in R PROVE rows[ts].line < Max({0} \cup L)
  <2>1. rows[ts].line + 1 \in L
    BY DEF L
  <2>2. rows[ts].line + 1 <= Max({0} \cup L) /\ Max({0} \cup L) \in Nat
    BY <1>5, <1>7, <2>1
  <2> QED BY <1>2, <2>2
<1> QED BY <1>5, <1>7, <1>8 DEF L, R

\* A message as it is handled.
LEMMA ItemFacts ==
  ASSUME NEW ts, NEW text, NEW thread, NEW reacted
  PROVE  LET i == Item(ts, text, thread, reacted)
             q == Quietly(i) IN
         /\ i.ts = ts /\ i.text = text /\ i.thread = thread /\ i.reacted = reacted /\ ~i.quiet /\ ~i.alone /\ ~i.replies
         /\ q.ts = ts /\ q.text = text /\ q.thread = thread /\ q.reacted = reacted /\ q.quiet /\ ~q.alone /\ ~q.replies
         /\ (ts \in TimeStamps /\ text \in Nat /\ thread \in {0} \cup TimeStamps /\ reacted \in (SUBSET Speakers) \cup {NotSaid})
              => i \in Items /\ q \in Items
  BY DEF Item, Quietly, Items

LEMMA FromApiFacts ==
  ASSUME SlackTypes, NEW ts \in DOMAIN said
  PROVE  LET i == FromApi(ts)
             q == Quietly(i) IN
         /\ i.ts = ts /\ i.text = said[ts].text /\ i.thread = Saying(ts).thread /\ i.reacted = said[ts].reacted
         /\ ~i.quiet /\ ~i.alone /\ ~i.replies /\ i \in Items
         /\ q.ts = ts /\ q.text = said[ts].text /\ q.thread = Saying(ts).thread /\ q.reacted = said[ts].reacted
         /\ q.quiet /\ ~q.alone /\ ~q.replies /\ q \in Items
         /\ \A b \in BOOLEAN : LET r == [i EXCEPT !.replies = b] IN
              /\ r.ts = ts /\ r.text = said[ts].text /\ r.thread = Saying(ts).thread /\ r.reacted = said[ts].reacted
              /\ ~r.quiet /\ ~r.alone /\ r.replies = b /\ r \in Items
<1>1. /\ said[ts] \in SaidOnes /\ ts \in TimeStamps /\ Saying(ts).thread \in {0} \cup TimeStamps
  <2>1. Saying(ts).thread # 0 => Saying(ts).thread \in TimeStamps
    BY SaidFacts
  <2> QED BY <2>1, SaidFacts
<1>2. said[ts].text \in Nat /\ said[ts].reacted \in (SUBSET Speakers) \cup {NotSaid}
  BY <1>1 DEF SaidOnes
<1>3. FromApi(ts) = Item(ts, said[ts].text, Saying(ts).thread, said[ts].reacted)
  BY DEF FromApi
<1>4. ASSUME NEW text \in Nat, NEW thread \in {0} \cup TimeStamps, NEW reacted \in (SUBSET Speakers) \cup {NotSaid}, NEW b \in BOOLEAN
      PROVE  LET r == [Item(ts, text, thread, reacted) EXCEPT !.replies = b] IN
              /\ r.ts = ts /\ r.text = text /\ r.thread = thread /\ r.reacted = reacted
              /\ ~r.quiet /\ ~r.alone /\ r.replies = b /\ r \in Items
  BY <1>1 DEF Item, Items
<1>5. ASSUME NEW b \in BOOLEAN
      PROVE  LET r == [FromApi(ts) EXCEPT !.replies = b] IN
              /\ r.ts = ts /\ r.text = said[ts].text /\ r.thread = Saying(ts).thread /\ r.reacted = said[ts].reacted
              /\ ~r.quiet /\ ~r.alone /\ r.replies = b /\ r \in Items
  BY <1>1, <1>2, <1>3, <1>4
<1>6. LET i == FromApi(ts)
          q == Quietly(i) IN
      /\ i.ts = ts /\ i.text = said[ts].text /\ i.thread = Saying(ts).thread /\ i.reacted = said[ts].reacted
      /\ ~i.quiet /\ ~i.alone /\ ~i.replies /\ i \in Items
      /\ q.ts = ts /\ q.text = said[ts].text /\ q.thread = Saying(ts).thread /\ q.reacted = said[ts].reacted
      /\ q.quiet /\ ~q.alone /\ ~q.replies /\ q \in Items
  BY <1>1, <1>2, <1>3, ItemFacts
<1> QED BY <1>5, <1>6

LEMMA AloneFacts ==
  ASSUME NEW i \in Items
  PROVE  LET a == [i EXCEPT !.alone = TRUE] IN
         /\ a \in Items /\ a.alone
         /\ a.ts = i.ts /\ a.text = i.text /\ a.thread = i.thread /\ a.reacted = i.reacted /\ a.quiet = i.quiet /\ a.replies = i.replies
  BY DEF Items

LEMMA TailFacts ==
  ASSUME NEW T, NEW s \in Seq(T), s # <<>>
  PROVE  /\ Tail(s) \in Seq(T) /\ Len(s) \in Nat /\ Len(s) >= 1 /\ Len(Tail(s)) = Len(s) - 1 /\ DOMAIN Tail(s) = 1..(Len(s) - 1)
         /\ \A i \in DOMAIN Tail(s) : i + 1 \in DOMAIN s /\ Tail(s)[i] = s[i + 1]
         /\ \A i \in DOMAIN s : i # 1 => i - 1 \in DOMAIN Tail(s) /\ Tail(s)[i - 1] = s[i]
<1>1. Tail(s) \in Seq(T) /\ Len(s) \in Nat /\ Len(s) >= 1 /\ Len(Tail(s)) = Len(s) - 1 /\ DOMAIN Tail(s) = 1..(Len(s) - 1)
      /\ DOMAIN s = 1..Len(s)
  OBVIOUS
<1>2. \A i \in DOMAIN Tail(s) : i + 1 \in DOMAIN s /\ Tail(s)[i] = s[i + 1]
  BY <1>1, HeadTailProperties
<1>3. ASSUME NEW i \in DOMAIN s, i # 1 PROVE i - 1 \in DOMAIN Tail(s) /\ Tail(s)[i - 1] = s[i]
  <2>1. i - 1 \in DOMAIN Tail(s) /\ (i - 1) + 1 = i
    BY <1>1, <1>3
  <2> QED BY <1>2, <2>1
<1> QED BY <1>1, <1>2, <1>3

LEMMA AtGives ==
  ASSUME SlackTypes, NEW stage \in {"idle", "next", "write", "thread"}, NEW items \in Seq(Items), At(stage, items)
  PROVE  /\ handling' \in [at : {"idle", "next", "write", "thread"}, items : Seq(Items), live : BOOLEAN, raises : BOOLEAN, new : BOOLEAN]
         /\ handling'.at = stage /\ handling'.items = items /\ handling'.live = handling.live
         /\ handling'.raises = handling.raises /\ handling'.new = handling.new
  BY DEF SlackTypes, At

LEMMA HandlesGives ==
  ASSUME NEW live \in BOOLEAN, NEW raises \in BOOLEAN, NEW items \in Seq(Items), Handles(live, raises, items)
  PROVE  /\ handling' \in [at : {"idle", "next", "write", "thread"}, items : Seq(Items), live : BOOLEAN, raises : BOOLEAN, new : BOOLEAN]
         /\ handling'.at = "next" /\ handling'.items = items /\ handling'.live = live
         /\ handling'.raises = raises /\ handling'.new = FALSE
  BY DEF Handles

\* One message is handled by itself.
LEMMA OneInHand ==
  ASSUME NEW item, item.ts \in DOMAIN said', item.thread \in {0, Saying(item.ts)'.thread}, ~item.replies,
         handling'.items = <<item>>, handling'.live, handling'.at \in {"next", "write"}, handling'.at = "write" => HasRow(item.ts)'
  PROVE  HandlingShape'
<1>1. /\ InHand' = {1} /\ ItemOf(1)' = item /\ First' = item /\ Len(handling'.items) = 1 /\ handling'.items # <<>>
  BY DEF InHand, ItemOf, First
<1>2. ItemsFit'
  BY <1>1 DEF ItemsFit
<1>3. ItemsApart'
  BY <1>1 DEF ItemsApart
<1> QED BY <1>1, <1>2, <1>3 DEF HandlingShape, FilledInOrder

\* What was at the head is handled, and the rest is left.
LEMMA RestShape ==
  ASSUME SlackShape, handling.items # <<>>, At("next", Rest), UNCHANGED <<talk, said, rows>>
  PROVE  /\ HandlingShape'
         /\ handling' \in [at : {"idle", "next", "write", "thread"}, items : Seq(Items), live : BOOLEAN, raises : BOOLEAN, new : BOOLEAN]
<1> USE DEF SlackShape
<1> DEFINE n == Len(handling.items)
<1>1. handling.items \in Seq(Items) /\ n \in Nat /\ InHand = 1..n
  BY HandlingFacts
<1>2. /\ Rest \in Seq(Items) /\ n >= 1 /\ Len(Rest) = n - 1 /\ DOMAIN Rest = 1..(n - 1)
      /\ \A k \in DOMAIN Rest : k + 1 \in InHand /\ Rest[k] = ItemOf(k + 1)
  BY <1>1, TailFacts DEF Rest, InHand, ItemOf
<1>3. /\ handling' \in [at : {"idle", "next", "write", "thread"}, items : Seq(Items), live : BOOLEAN, raises : BOOLEAN, new : BOOLEAN]
      /\ handling'.at = "next" /\ handling'.items = Rest /\ handling'.live = handling.live
  BY <1>2, AtGives
<1>4. /\ InHand' = 1..(n - 1) /\ Len(handling'.items) = n - 1
      /\ \A k \in InHand' : k + 1 \in InHand /\ ItemOf(k)' = ItemOf(k + 1)
  BY <1>2, <1>3 DEF InHand, ItemOf
<1>5. \A ts : Saying(ts)' = Saying(ts) /\ (HasRow(ts)' <=> HasRow(ts))
  BY DEF Saying, HasRow
<1>6. ItemsFit'
  BY <1>3, <1>4, <1>5 DEF ItemsFit, HandlingShape
<1>7. ItemsApart'
  <2> SUFFICES ASSUME NEW j \in InHand', NEW k \in InHand', ItemOf(j)'.ts = ItemOf(k)'.ts PROVE j = k
    BY DEF ItemsApart
  <2>1. j + 1 = k + 1
    BY <1>4 DEF ItemsApart, HandlingShape
  <2> QED BY <1>1, <1>4, <2>1
<1>8. FilledInOrder'
  <2> SUFFICES ASSUME ~handling'.live, NEW j \in InHand', NEW k \in InHand', j < k, Saying(ItemOf(j).ts)'.thread = 0
               PROVE  Saying(ItemOf(k).ts)'.thread = 0 /\ ItemOf(j)'.ts < ItemOf(k)'.ts
    BY DEF FilledInOrder
  <2>1. j + 1 \in InHand /\ k + 1 \in InHand /\ j + 1 < k + 1
    BY <1>1, <1>4
  <2>2. ItemOf(j)' = ItemOf(j + 1) /\ ItemOf(k)' = ItemOf(k + 1)
    BY <1>4
  <2>3. Saying(ItemOf(j + 1).ts).thread = 0
    BY <1>5, <2>2 DEF Saying
  <2>4. Saying(ItemOf(k + 1).ts).thread = 0 /\ ItemOf(j + 1).ts < ItemOf(k + 1).ts
    BY <1>3, <2>1, <2>3 DEF FilledInOrder, HandlingShape
  <2> QED BY <1>5, <2>2, <2>4 DEF Saying
<1>9. handling'.live => Len(handling'.items) <= 1
  BY <1>1, <1>3, <1>4 DEF HandlingShape
<1> QED BY <1>3, <1>6, <1>7, <1>8, <1>9 DEF HandlingShape

LEMMA TakesOneShape == ASSUME SlackShape, TakesMessage \/ TakesChanged PROVE SlackShape'
<1> USE DEF SlackShape
<1> DEFINE e == events[1]
<1>1. /\ events # <<>> /\ events' = Tail(events) /\ UNCHANGED <<talk, said, socket, posting, rows, days, marked, toldOf, behind>>
  BY DEF TakesMessage, TakesChanged, TakesEvent, channel, theRecord, notes
<1>2. 1 \in DOMAIN events /\ Head(events) = e
  BY <1>1, HeadTaken DEF SlackTypes
<1>3. EventFits(e) /\ e.type \in {"message", "changed"}
  BY <1>2 DEF TakesMessage, TakesChanged, TakesEvent, OfWhatWasSaid
<1>4. e.ts \in DOMAIN said /\ e.x \in Nat /\ e.ts \in TimeStamps
  <2>1. e.ts \in DOMAIN said /\ e.x \in Nat
    BY <1>3 DEF EventFits, Gives
  <2> QED BY <2>1, SaidFacts
<1>5. Saying(e.ts).thread \in {0} \cup TimeStamps
  <2>1. Saying(e.ts).thread # 0 => Saying(e.ts).thread \in TimeStamps
    BY <1>4, SaidFacts
  <2> QED BY <2>1
<1> HIDE DEF e
<1>6. PICK item \in Items : /\ Handles(TRUE, TRUE, <<item>>) /\ item.ts = e.ts /\ item.thread \in {0, Saying(e.ts).thread} /\ ~item.replies
  <2>1. CASE TakesMessage
    <3> DEFINE item == Item(e.ts, e.x, Saying(e.ts).thread, NotSaid)
    <3>1. Handles(TRUE, TRUE, <<item>>)
      BY <1>2, <2>1 DEF TakesMessage
    <3>2. item \in Items /\ item.ts = e.ts /\ item.thread = Saying(e.ts).thread /\ ~item.replies
      BY <1>4, <1>5, ItemFacts
    <3> HIDE DEF item
    <3> QED BY <3>1, <3>2
  <2>2. CASE TakesChanged
    <3> DEFINE item == Quietly(Item(e.ts, e.x, 0, NotSaid))
    <3>1. Handles(TRUE, TRUE, <<item>>)
      BY <1>2, <2>2 DEF TakesChanged
    <3>2. item \in Items /\ item.ts = e.ts /\ item.thread = 0 /\ ~item.replies
      BY <1>4, ItemFacts
    <3> HIDE DEF item
    <3> QED BY <3>1, <3>2
  <2> QED BY <2>1, <2>2
<1>7. /\ handling' \in [at : {"idle", "next", "write", "thread"}, items : Seq(Items), live : BOOLEAN, raises : BOOLEAN, new : BOOLEAN]
      /\ handling'.at = "next" /\ handling'.items = <<item>> /\ handling'.live
  <2>1. <<item>> \in Seq(Items) /\ TRUE \in BOOLEAN
    OBVIOUS
  <2> QED BY <1>6, <2>1, HandlesGives
<1>8. HandlingShape'
  <2>1. item.ts \in DOMAIN said' /\ item.thread \in {0, Saying(item.ts)'.thread}
    BY <1>1, <1>4, <1>6 DEF Saying
  <2> QED BY <1>6, <1>7, <2>1, OneInHand
<1>9. events' \in Seq(SlackEvents) /\ (\A i \in DOMAIN events : EventFits(events[i]))'
  BY <1>1, TakenFits DEF OfWhatWasSaid
<1>10. SlackTypes'
  BY <1>1, <1>7, <1>9 DEF SlackTypes
<1>11. OfWhatWasSaid'
  BY <1>1, <1>9 DEF OfWhatWasSaid, HasRow, Saying
<1> QED BY <1>8, <1>10, <1>11

\* A row that changes keeps its place.
LEMMA ChangedRow ==
  ASSUME SlackTypes, NEW ts \in TimeStamps, HasRow(ts)
  PROVE  /\ LET r == [rows[ts] EXCEPT !.deleted = TRUE] IN
            r \in SlackRows /\ r.line = rows[ts].line /\ r.day = rows[ts].day /\ r.thread = rows[ts].thread /\ r.own = rows[ts].own
              /\ r.text = rows[ts].text /\ r.deleted /\ r.reacted = rows[ts].reacted
         /\ \A S \in SUBSET Speakers : LET r == [rows[ts] EXCEPT !.reacted = S] IN
            r \in SlackRows /\ r.line = rows[ts].line /\ r.day = rows[ts].day /\ r.thread = rows[ts].thread /\ r.own = rows[ts].own
              /\ r.text = rows[ts].text /\ r.deleted = rows[ts].deleted /\ r.reacted = S
         /\ rows[ts].reacted \in SUBSET Speakers
<1>1. rows[ts] \in SlackRows
  BY RowFacts
<1>2. ASSUME NEW row \in SlackRows
      PROVE  LET r == [row EXCEPT !.deleted = TRUE] IN
            r \in SlackRows /\ r.line = row.line /\ r.day = row.day /\ r.thread = row.thread /\ r.own = row.own
              /\ r.text = row.text /\ r.deleted /\ r.reacted = row.reacted
  BY DEF SlackRows
<1>3. ASSUME NEW row \in SlackRows, NEW S \in SUBSET Speakers
      PROVE  LET r == [row EXCEPT !.reacted = S] IN
            r \in SlackRows /\ r.line = row.line /\ r.day = row.day /\ r.thread = row.thread /\ r.own = row.own
              /\ r.text = row.text /\ r.deleted = row.deleted /\ r.reacted = S
  BY DEF SlackRows
<1>4. rows[ts].reacted \in SUBSET Speakers
  BY <1>1 DEF SlackRows
<1> QED BY <1>1, <1>2, <1>3, <1>4

ReactedOf(ts) == IF HasRow(ts) THEN rows[ts].reacted ELSE {}

\* The row a message is recorded as.
LEMMA RecordedRow ==
  ASSUME SlackTypes, NEW item \in Items, item.ts \in DOMAIN said
  PROVE  LET r == RowWith(item)
             ts == item.ts IN
         /\ ts \in TimeStamps /\ r \in SlackRows /\ r.text = item.text /\ ~r.deleted
         /\ r.reacted = (IF item.reacted = NotSaid THEN ReactedOf(ts) ELSE item.reacted)
         /\ HasRow(ts) => r.line = rows[ts].line /\ r.day = rows[ts].day /\ r.thread = rows[ts].thread /\ r.own = rows[ts].own
         /\ ~HasRow(ts) => /\ r.thread = item.thread
                           /\ \A t \in RowsOf(rows, r.day) : rows[t].line < r.line
<1> DEFINE ts == item.ts
           told == item.reacted
<1>1. ts \in TimeStamps /\ item.text \in Nat /\ item.thread \in {0} \cup TimeStamps /\ told \in (SUBSET Speakers) \cup {NotSaid}
      /\ ts \in 1..Len(talk.says)
  BY SaidFacts DEF Items
<1>2. CASE HasRow(ts)
  <2> DEFINE row == rows[ts]
             now == IF told = NotSaid THEN row.reacted ELSE told
             r == [line |-> row.line, day |-> row.day, thread |-> row.thread, own |-> row.own,
                   text |-> item.text, deleted |-> FALSE, reacted |-> now]
  <2>1. row \in SlackRows
    BY <1>1, <1>2, RowFacts
  <2>2. now \in SUBSET Speakers
    BY <1>1, <2>1 DEF SlackRows
  <2>3. RowWith(item) = [row EXCEPT !.text = item.text, !.deleted = FALSE, !.reacted = now]
    BY <1>2 DEF RowWith
  <2> HIDE DEF row, now
  <2>4. ASSUME NEW w \in SlackRows, NEW x \in Nat, NEW S \in SUBSET Speakers
        PROVE  LET v == [w EXCEPT !.text = x, !.deleted = FALSE, !.reacted = S] IN
               v \in SlackRows /\ v.line = w.line /\ v.day = w.day /\ v.thread = w.thread /\ v.own = w.own
                 /\ v.text = x /\ ~v.deleted /\ v.reacted = S
    BY DEF SlackRows
  <2>5. /\ RowWith(item) \in SlackRows /\ RowWith(item).line = row.line /\ RowWith(item).day = row.day
        /\ RowWith(item).thread = row.thread /\ RowWith(item).own = row.own
        /\ RowWith(item).text = item.text /\ ~RowWith(item).deleted /\ RowWith(item).reacted = now
    <3> DEFINE text == item.text
    <3>1. RowWith(item) = [row EXCEPT !.text = text, !.deleted = FALSE, !.reacted = now] /\ text \in Nat
      BY <1>1, <2>3
    <3> HIDE DEF text
    <3>2. LET v == [row EXCEPT !.text = text, !.deleted = FALSE, !.reacted = now] IN
          v \in SlackRows /\ v.line = row.line /\ v.day = row.day /\ v.thread = row.thread /\ v.own = row.own
          /\ v.text = text /\ ~v.deleted /\ v.reacted = now
      BY <2>1, <2>2, <2>4, <3>1 DEF SlackRows
    <3> QED BY <3>1, <3>2 DEF text
  <2> QED BY <1>1, <1>2, <2>5 DEF row, now, ReactedOf
<1>3. CASE ~HasRow(ts)
  <2> DEFINE inThread == item.thread # 0 /\ HasRow(item.thread)
             day == IF inThread THEN rows[item.thread].day ELSE DaySaid[ts]
             line == Max({0} \cup {rows[t].line + 1 : t \in RowsOf(rows, day)})
             own == Saying(ts).by = "natsumi"
             now == IF told = NotSaid THEN {} ELSE told
  <2>1. RowWith(item) = [line |-> line, day |-> day, thread |-> item.thread, own |-> own,
                         text |-> item.text, deleted |-> FALSE, reacted |-> now]
    BY <1>3 DEF RowWith, NewRow
  <2>2. day \in Range(DaySaid)
    <3>1. CASE inThread
      <4>1. rows[item.thread] \in SlackRows
        BY <1>1, <3>1, RowFacts
      <4> QED BY <3>1, <4>1 DEF SlackRows
    <3>2. CASE ~inThread
      <4>1. ts \in DOMAIN DaySaid
        BY <1>1 DEF TimeStamps
      <4> QED BY <3>2, <4>1 DEF Range
    <3> QED BY <3>1, <3>2
  <2>3. line \in Nat /\ \A t \in RowsOf(rows, day) : rows[t].line < line
    BY NextLine
  <2>4. now \in SUBSET Speakers /\ own \in BOOLEAN
    BY <1>1
  <2> HIDE DEF day, line, own, now
  <2>5. ASSUME NEW n \in Nat, NEW d \in Range(DaySaid), NEW th \in {0} \cup TimeStamps, NEW o \in BOOLEAN, NEW x \in Nat, NEW S \in SUBSET Speakers
        PROVE  LET v == [line |-> n, day |-> d, thread |-> th, own |-> o, text |-> x, deleted |-> FALSE, reacted |-> S] IN
               v \in SlackRows /\ v.line = n /\ v.day = d /\ v.thread = th /\ v.text = x /\ ~v.deleted /\ v.reacted = S
    BY DEF SlackRows
  <2>6. /\ RowWith(item) \in SlackRows /\ RowWith(item).line = line /\ RowWith(item).day = day
        /\ RowWith(item).thread = item.thread
        /\ RowWith(item).text = item.text /\ ~RowWith(item).deleted /\ RowWith(item).reacted = now
    BY <1>1, <2>1, <2>2, <2>3, <2>4, <2>5
  <2> QED BY <1>1, <1>3, <2>3, <2>6 DEF now, ReactedOf
<1> QED BY <1>2, <1>3

\* A row written is a row, and no other changes.
LEMMA RowWritten ==
  ASSUME SlackTypes, NEW ts \in TimeStamps, NEW row \in SlackRows, rows' = [rows EXCEPT ![ts] = row]
  PROVE  /\ rows' \in [TimeStamps -> SlackRows \cup {NoRow}] /\ rows'[ts] = row /\ HasRow(ts)'
         /\ \A t \in TimeStamps \ {ts} : rows'[t] = rows[t] /\ (HasRow(t)' <=> HasRow(t))
         /\ \A t \in TimeStamps : HasRow(t) => HasRow(t)'
<1>1. row # NoRow
  <2>1. DOMAIN NoRow = {"line"} /\ "day" \in DOMAIN row
    BY DEF NoRow, SlackRows
  <2> QED BY <2>1
<1>2. rows' \in [TimeStamps -> SlackRows \cup {NoRow}] /\ rows'[ts] = row /\ \A t \in TimeStamps \ {ts} : rows'[t] = rows[t]
  BY DEF SlackTypes
<1> QED BY <1>1, <1>2 DEF HasRow

LEMMA ChangesShape ==
  ASSUME SlackShape, NEW type, TakesEvent(type), NEW ts \in DOMAIN said, NEW changed, NEW row, HasRow(ts) => row \in SlackRows,
         Changes(ts, changed, row)
  PROVE  SlackShape'
<1> USE DEF SlackShape
<1> DEFINE item == Quietly(Item(ts, 0, 0, NotSaid))
<1>1. /\ events # <<>> /\ events' = Tail(events) /\ handling = AtRest
      /\ UNCHANGED <<talk, said, socket, posting, marked, toldOf, behind>> /\ days' = days
  BY DEF TakesEvent, Changes, channel, notes
<1>2. events' \in Seq(SlackEvents) /\ (\A i \in DOMAIN events : EventFits(events[i]))'
  BY <1>1, TakenFits DEF OfWhatWasSaid
<1>3. ts \in TimeStamps
  BY SaidFacts
<1>4. item \in Items /\ item.ts = ts /\ item.thread = 0 /\ ~item.replies
  BY <1>3, ItemFacts
<1>5. CASE HasRow(ts) /\ changed
  <2>1. rows' = [rows EXCEPT ![ts] = row] /\ handling' = [AtRest EXCEPT !.at = "write", !.items = <<item>>] /\ row \in SlackRows
    BY <1>5 DEF Changes
  <2>2. /\ rows' \in [TimeStamps -> SlackRows \cup {NoRow}] /\ rows'[ts] = row /\ HasRow(ts)'
        /\ \A t \in TimeStamps \ {ts} : HasRow(t)' <=> HasRow(t)
    BY <1>3, <2>1, RowWritten
  <2> HIDE DEF item
  <2>3. <<item>> \in Seq(Items)
    BY <1>4
  <2>4. /\ handling' \in [at : {"idle", "next", "write", "thread"}, items : Seq(Items), live : BOOLEAN, raises : BOOLEAN, new : BOOLEAN]
        /\ handling'.at = "write" /\ handling'.items = <<item>> /\ handling'.live
    BY <2>1, <2>3, AtRestFits DEF AtRest
  <2>5. HandlingShape'
    <3>1. item.ts \in DOMAIN said' /\ item.thread \in {0, Saying(item.ts)'.thread} /\ HasRow(item.ts)'
      BY <1>1, <1>4, <2>2
    <3> QED BY <1>4, <2>4, <3>1, OneInHand
  <2>6. SlackTypes'
    BY <1>1, <1>2, <2>2, <2>4 DEF SlackTypes
  <2>7. \A t \in TimeStamps : HasRow(t)' => t \in DOMAIN said'
    BY <1>1, <1>3, <1>5, <2>2 DEF OfWhatWasSaid
  <2>8. OfWhatWasSaid'
    BY <1>1, <1>2, <2>7 DEF OfWhatWasSaid, Saying
  <2> QED BY <2>5, <2>6, <2>8
<1>6. CASE ~(HasRow(ts) /\ changed)
  <2>1. rows' = rows /\ handling' = handling
    BY <1>6 DEF Changes
  <2>2. SlackTypes'
    BY <1>1, <1>2, <2>1 DEF SlackTypes
  <2>3. OfWhatWasSaid'
    BY <1>1, <1>2, <2>1 DEF OfWhatWasSaid, HasRow, Saying
  <2>4. HandlingShape'
    BY <1>1, <2>1, HandlingStays
  <2> QED BY <2>2, <2>3, <2>4
<1> QED BY <1>5, <1>6

\* The event at the head of the queue.
LEMMA HeadFits ==
  ASSUME SlackShape, NEW type, TakesEvent(type)
  PROVE  LET e == events[1] IN
         /\ 1 \in DOMAIN events /\ Head(events) = e /\ e \in SlackEvents /\ EventFits(e) /\ e.type = type
         /\ e.type # "fill" => e.ts \in DOMAIN said /\ e.ts \in TimeStamps
<1>1. events # <<>> /\ events' = Tail(events) /\ Head(events).type = type /\ events \in Seq(SlackEvents)
  BY DEF TakesEvent, SlackShape, SlackTypes
<1>2. 1 \in DOMAIN events /\ Head(events) = events[1] /\ events[1] \in SlackEvents
  BY <1>1, HeadTaken
<1>3. EventFits(events[1])
  BY <1>2 DEF SlackShape, OfWhatWasSaid
<1>4. DOMAIN said \subseteq TimeStamps
  BY SaidFacts DEF SlackShape
<1> QED BY <1>1, <1>2, <1>3, <1>4 DEF EventFits

LEMMA TakesChangeShape == ASSUME SlackShape, TakesDeleted \/ TakesReacted \/ TakesUnreacted PROVE SlackShape'
<1>0. SlackTypes
  BY DEF SlackShape
<1> DEFINE e == events[1]
<1>1. CASE TakesDeleted
  <2>1. TakesEvent("deleted")
    BY <1>1 DEF TakesDeleted
  <2>2. Head(events) = e /\ e.ts \in DOMAIN said /\ e.ts \in TimeStamps
    BY <2>1, HeadFits
  <2> DEFINE row == [rows[e.ts] EXCEPT !.deleted = TRUE]
  <2>3. Changes(e.ts, ~rows[e.ts].deleted, row)
    BY <1>1, <2>2 DEF TakesDeleted
  <2>4. HasRow(e.ts) => row \in SlackRows
    BY <1>0, <2>2, ChangedRow
  <2> HIDE DEF row, e
  <2> QED BY <2>1, <2>2, <2>3, <2>4, ChangesShape
<1>2. CASE TakesReacted
  <2>1. TakesEvent("reacted")
    BY <1>2 DEF TakesReacted
  <2>2. Head(events) = e /\ e.ts \in DOMAIN said /\ e.ts \in TimeStamps /\ e.type = "reacted" /\ EventFits(e)
    BY <2>1, HeadFits
  <2>3. e.x \in Speakers
    BY <2>2 DEF EventFits
  <2> DEFINE row == [rows[e.ts] EXCEPT !.reacted = rows[e.ts].reacted \cup {e.x}]
  <2>4. Changes(e.ts, e.x \notin rows[e.ts].reacted, row)
    BY <1>2, <2>2 DEF TakesReacted
  <2>5. HasRow(e.ts) => row \in SlackRows
    <3> SUFFICES ASSUME HasRow(e.ts) PROVE row \in SlackRows
      OBVIOUS
    <3>1. rows[e.ts].reacted \in SUBSET Speakers
      BY <1>0, <2>2, ChangedRow
    <3>2. rows[e.ts].reacted \cup {e.x} \in SUBSET Speakers
      BY <2>3, <3>1
    <3> HIDE DEF e
    <3> QED BY <1>0, <2>2, <3>2, ChangedRow
  <2> HIDE DEF row, e
  <2> QED BY <2>1, <2>2, <2>4, <2>5, ChangesShape
<1>3. CASE TakesUnreacted
  <2>1. TakesEvent("unreacted")
    BY <1>3 DEF TakesUnreacted
  <2>2. Head(events) = e /\ e.ts \in DOMAIN said /\ e.ts \in TimeStamps /\ e.type = "unreacted" /\ EventFits(e)
    BY <2>1, HeadFits
  <2> DEFINE row == [rows[e.ts] EXCEPT !.reacted = rows[e.ts].reacted \ {e.x}]
  <2>4. Changes(e.ts, e.x \in rows[e.ts].reacted, row)
    BY <1>3, <2>2 DEF TakesUnreacted
  <2>5. HasRow(e.ts) => row \in SlackRows
    BY <1>0, <2>2, ChangedRow
  <2> HIDE DEF row, e
  <2> QED BY <2>1, <2>2, <2>4, <2>5, ChangesShape
<1> QED BY <1>1, <1>2, <1>3

LEMMA DropsShape == ASSUME SlackShape, FillFails \/ EventFails PROVE SlackShape'
<1> USE DEF SlackShape
<1>1. /\ events # <<>> /\ events' = Tail(events) /\ UNCHANGED <<talk, said, socket, posting, handling, rows, days, marked, toldOf, behind>>
  BY DEF FillFails, EventFails, TakesEvent, channel, theRecord, notes
<1>2. events' \in Seq(SlackEvents) /\ (\A i \in DOMAIN events : EventFits(events[i]))'
  BY <1>1, TakenFits DEF OfWhatWasSaid
<1>3. SlackTypes'
  BY <1>1, <1>2 DEF SlackTypes
<1>4. OfWhatWasSaid'
  BY <1>1, <1>2 DEF OfWhatWasSaid, HasRow, Saying
<1>5. HandlingShape'
  BY <1>1, HandlingStays
<1> QED BY <1>3, <1>4, <1>5

\* A fill-in takes up what was said in the channel, in order.
LEMMA FillTakes ==
  ASSUME SlackTypes, TakesFill
  PROVE  /\ handling' \in [at : {"idle", "next", "write", "thread"}, items : Seq(Items), live : BOOLEAN, raises : BOOLEAN, new : BOOLEAN]
         /\ handling'.at = "next" /\ ~handling'.live
         /\ \A k \in InHand' : LET i == ItemOf(k)' IN
              /\ i \in Items /\ i.ts \in DOMAIN said /\ Saying(i.ts).thread = 0 /\ i.thread = 0 /\ ~said[i.ts].deleted
              /\ i.ts > Cursor(rows) /\ i.text = said[i.ts].text /\ i.reacted = said[i.ts].reacted /\ ~i.quiet /\ ~i.alone
         /\ \A j, k \in InHand' : j < k => ItemOf(j)'.ts < ItemOf(k)'.ts
         /\ \A ts \in DOMAIN said : (Saying(ts).thread = 0 /\ ~said[ts].deleted /\ ts > Cursor(rows)) =>
              \E k \in InHand' : ItemOf(k)'.ts = ts
         /\ InHand' = 1..Len(handling'.items) /\ Len(handling'.items) \in Nat
<1> DEFINE after == {ts \in DOMAIN said : Saying(ts).thread = 0 /\ ~said[ts].deleted /\ ts > Cursor(rows)}
           answered(ts) == \E r \in DOMAIN said : Saying(r).thread = ts /\ ~said[r].deleted
           item(ts) == [FromApi(ts) EXCEPT !.replies = answered(ts)]
           n == Cardinality(after)
           s == AsSaid(after)
           items == [i \in 1..n |-> item(s[i])]
<1>1. Handles(FALSE, Cursor(rows) # 0, items)
  BY DEF TakesFill
<1>2. after \in SUBSET (1..Len(said)) /\ Len(said) \in Nat
  BY SaidFacts
<1>3. ASSUME NEW ts \in after
      PROVE  LET i == item(ts) IN
             /\ i \in Items /\ i.ts = ts /\ ts \in DOMAIN said /\ Saying(ts).thread = 0 /\ i.thread = 0 /\ ~said[ts].deleted
             /\ ts > Cursor(rows) /\ i.text = said[ts].text /\ i.reacted = said[ts].reacted /\ ~i.quiet /\ ~i.alone
  <2>1. answered(ts) \in BOOLEAN /\ ts \in DOMAIN said /\ Saying(ts).thread = 0 /\ ~said[ts].deleted /\ ts > Cursor(rows)
    OBVIOUS
  <2> HIDE DEF answered, after
  <2> QED BY <2>1, FromApiFacts
<1>4. \A ts \in DOMAIN said : (Saying(ts).thread = 0 /\ ~said[ts].deleted /\ ts > Cursor(rows)) => ts \in after
  OBVIOUS
<1> HIDE DEF item, after
<1>5. /\ n \in Nat /\ s \in Seq(after) /\ Len(s) = n /\ DOMAIN s = 1..n
      /\ \A x \in after : \E i \in 1..n : s[i] = x
      /\ \A i \in 1..n : s[i] \in after
      /\ \A i, j \in 1..n : i < j => s[i] < s[j]
  BY <1>2, SaidInOrder
<1> HIDE DEF n, s
<1>6. items \in Seq(Items) /\ Len(items) = n /\ DOMAIN items = 1..n /\ \A i \in 1..n : items[i] = item(s[i])
  <2>1. \A i \in 1..n : item(s[i]) \in Items
    BY <1>3, <1>5
  <2> QED BY <1>5, <2>1
<1> HIDE DEF items
<1>7. /\ handling' \in [at : {"idle", "next", "write", "thread"}, items : Seq(Items), live : BOOLEAN, raises : BOOLEAN, new : BOOLEAN]
      /\ handling'.at = "next" /\ handling'.items = items /\ handling'.live = FALSE
  BY <1>1, <1>6, HandlesGives
<1>8. InHand' = 1..n /\ \A k \in InHand' : ItemOf(k)' = item(s[k])
  BY <1>6, <1>7 DEF InHand, ItemOf
<1>9. \A k \in InHand' : ItemOf(k)'.ts = s[k]
  BY <1>3, <1>5, <1>8
<1>10. ASSUME NEW k \in InHand'
       PROVE LET i == ItemOf(k)' IN
              /\ i \in Items /\ i.ts \in DOMAIN said /\ Saying(i.ts).thread = 0 /\ i.thread = 0 /\ ~said[i.ts].deleted
              /\ i.ts > Cursor(rows) /\ i.text = said[i.ts].text /\ i.reacted = said[i.ts].reacted /\ ~i.quiet /\ ~i.alone
  <2>1. s[k] \in after /\ ItemOf(k)' = item(s[k]) /\ item(s[k]).ts = s[k]
    BY <1>3, <1>5, <1>8
  <2> QED BY <1>3, <2>1
<1>11. \A j, k \in InHand' : j < k => ItemOf(j)'.ts < ItemOf(k)'.ts
  BY <1>5, <1>8, <1>9
<1>12. ASSUME NEW ts \in DOMAIN said, Saying(ts).thread = 0 /\ ~said[ts].deleted /\ ts > Cursor(rows)
       PROVE  \E k \in InHand' : ItemOf(k)'.ts = ts
  BY <1>4, <1>5, <1>8, <1>9, <1>12
<1> QED BY <1>5, <1>6, <1>7, <1>8, <1>10, <1>11, <1>12

LEMMA FillShape == ASSUME SlackShape, TakesFill PROVE SlackShape'
<1> USE DEF SlackShape
<1>1. /\ events # <<>> /\ events' = Tail(events) /\ UNCHANGED <<talk, said, socket, posting, rows, days, marked, toldOf>>
      /\ behind' = (behind /\ socket # "open")
  BY DEF TakesFill, TakesEvent, channel, theRecord
<1>2. events' \in Seq(SlackEvents) /\ (\A i \in DOMAIN events : EventFits(events[i]))'
  BY <1>1, TakenFits DEF OfWhatWasSaid
<1>3. /\ handling' \in [at : {"idle", "next", "write", "thread"}, items : Seq(Items), live : BOOLEAN, raises : BOOLEAN, new : BOOLEAN]
      /\ handling'.at = "next" /\ ~handling'.live
      /\ \A k \in InHand' : ItemOf(k)'.ts \in DOMAIN said /\ Saying(ItemOf(k)'.ts).thread = 0 /\ ItemOf(k)'.thread = 0
      /\ \A j, k \in InHand' : j < k => ItemOf(j)'.ts < ItemOf(k)'.ts
      /\ InHand' = 1..Len(handling'.items) /\ Len(handling'.items) \in Nat
  BY FillTakes
<1>4. \A ts : Saying(ts)' = Saying(ts)
  BY <1>1 DEF Saying
<1>5. ItemsFit'
  <2> SUFFICES ASSUME NEW k \in InHand'
               PROVE  /\ ItemOf(k)'.ts \in DOMAIN said' /\ ItemOf(k)'.thread = 0 /\ Saying(ItemOf(k).ts)'.thread = 0
    BY <1>3 DEF ItemsFit
  <2>1. ItemOf(k)'.ts \in DOMAIN said /\ Saying(ItemOf(k)'.ts).thread = 0 /\ ItemOf(k)'.thread = 0
    BY <1>3
  <2> QED BY <1>1, <2>1 DEF Saying
<1>6. ItemsApart'
  <2> SUFFICES ASSUME NEW j \in InHand', NEW k \in InHand', ItemOf(j)'.ts = ItemOf(k)'.ts PROVE j = k
    BY DEF ItemsApart
  <2>1. ItemOf(j)'.ts \in Nat
    BY <1>3, SaidFacts
  <2>2. ~(j < k) /\ ~(k < j)
    BY <1>3, <2>1
  <2> QED BY <1>3, <2>2
<1>7. FilledInOrder'
  BY <1>3, <1>4 DEF FilledInOrder
<1>8. HandlingShape'
  BY <1>3, <1>5, <1>6, <1>7 DEF HandlingShape
<1>9. behind' \in BOOLEAN
  BY <1>1 DEF SlackTypes
<1>10. SlackTypes'
  BY <1>1, <1>2, <1>3, <1>9 DEF SlackTypes
<1>11. OfWhatWasSaid'
  BY <1>1, <1>2 DEF OfWhatWasSaid, HasRow, Saying
<1> QED BY <1>8, <1>10, <1>11

\* What is handled changes, and nothing else.
LEMMA OnlyHandling ==
  ASSUME SlackShape, UNCHANGED <<talk, said, socket, posting, events, rows, marked, toldOf, behind>>, DOMAIN days' = DOMAIN days,
         HandlingShape',
         handling' \in [at : {"idle", "next", "write", "thread"}, items : Seq(Items), live : BOOLEAN, raises : BOOLEAN, new : BOOLEAN]
  PROVE  SlackShape'
<1> USE DEF SlackShape
<1>1. SlackTypes'
  BY DEF SlackTypes
<1>2. OfWhatWasSaid'
  BY DEF OfWhatWasSaid, HasRow, Saying, EventFits, Gives
<1> QED BY <1>1, <1>2

\* A reply whose parent is wanted came by itself.
LEMMA WantedParent ==
  ASSUME SlackShape, WantsParent
  PROVE  /\ handling.live /\ handling.items = <<First>> /\ Rest = <<>> /\ First \in Items /\ First = ItemOf(1)
         /\ InHand = {1} /\ Len(handling.items) = 1
         /\ First.ts \in DOMAIN said /\ First.thread = Saying(First.ts).thread /\ First.thread \in DOMAIN said
         /\ First.thread < First.ts /\ Saying(First.thread).thread = 0 /\ ~First.replies
<1> USE DEF SlackShape
<1>1. handling.at = "next" /\ handling.items # <<>> /\ First.thread # 0 /\ ~First.alone /\ ~HasRow(First.thread)
  BY DEF WantsParent
<1>2. handling.items \in Seq(Items) /\ Len(handling.items) \in Nat /\ InHand = 1..Len(handling.items) /\ First = ItemOf(1) /\ 1 \in InHand
      /\ First \in Items /\ Len(handling.items) >= 1
  BY <1>1, HandlingFacts
<1>3. /\ First.ts \in DOMAIN said /\ First.thread = Saying(First.ts).thread /\ handling.live
      /\ ~First.replies
  BY <1>1, <1>2 DEF HandlingShape, ItemsFit
<1>4. Len(handling.items) = 1
  <2>1. Len(handling.items) <= 1 \/ ItemOf(1).thread = 0
    BY <1>3 DEF HandlingShape
  <2>2. ItemOf(1).thread # 0
    BY <1>1, <1>2
  <2> DEFINE n == Len(handling.items)
  <2>3. n <= 1 /\ n \in Nat /\ n >= 1
    BY <1>2, <2>1, <2>2
  <2> HIDE DEF n
  <2>4. n = 1
    BY <2>3
  <2> QED BY <2>4 DEF n
<1>5. handling.items = <<First>> /\ Rest = <<>>
  <2>1. ASSUME NEW s \in Seq(Items), Len(s) = 1 PROVE s = <<s[1]>> /\ Tail(s) = <<>>
    <3>1. <<s[1]>> \in Seq(Items) /\ Len(<<s[1]>>) = 1 /\ <<s[1]>>[1] = s[1]
      BY <2>1
    <3>2. s = <<s[1]>>
      BY <2>1, <3>1, SeqEqual
    <3>3. Tail(s) \in Seq(Items) /\ Len(Tail(s)) = 0
      BY <2>1
    <3>4. Tail(s) = <<>>
      BY <3>3, EmptySeq
    <3> QED BY <3>2, <3>4
  <2> QED BY <1>2, <1>4, <2>1 DEF First, Rest
<1>6. First.ts \in 1..Len(talk.says) /\ First.thread \in DOMAIN said /\ First.thread \in 0..(First.ts - 1) /\ Saying(First.thread).thread = 0
      /\ First.ts \in Nat
  BY <1>1, <1>3, SaidFacts
<1>7. First.thread < First.ts
  BY <1>6
<1> QED BY <1>2, <1>3, <1>4, <1>5, <1>6, <1>7

LEMMA AloneShape ==
  ASSUME SlackShape, WantsParent, At("next", <<[First EXCEPT !.alone = TRUE]>>), UNCHANGED <<talk, said, rows>>
  PROVE  /\ HandlingShape'
         /\ handling' \in [at : {"idle", "next", "write", "thread"}, items : Seq(Items), live : BOOLEAN, raises : BOOLEAN, new : BOOLEAN]
<1> USE DEF SlackShape
<1>1. handling.live /\ First \in Items /\ First.ts \in DOMAIN said /\ First.thread = Saying(First.ts).thread /\ ~First.replies
  BY WantedParent
<1>2. PICK a \in Items : /\ a = [First EXCEPT !.alone = TRUE]
                         /\ a.ts = First.ts /\ a.thread = First.thread /\ a.replies = First.replies
  BY <1>1, AloneFacts
<1>3. At("next", <<a>>)
  BY <1>2
<1>4. /\ handling' \in [at : {"idle", "next", "write", "thread"}, items : Seq(Items), live : BOOLEAN, raises : BOOLEAN, new : BOOLEAN]
      /\ handling'.at = "next" /\ handling'.items = <<a>> /\ handling'.live = handling.live
  <2>1. <<a>> \in Seq(Items) /\ "next" \in {"idle", "next", "write", "thread"}
    BY <1>2
  <2> QED BY <1>3, <2>1, AtGives
<1>5. HandlingShape'
  <2>1. a.ts \in DOMAIN said' /\ a.thread \in {0, Saying(a.ts)'.thread} /\ ~a.replies
    BY <1>1, <1>2 DEF Saying
  <2> QED BY <1>1, <1>4, <2>1, OneInHand
<1> QED BY <1>4, <1>5

LEMMA ParentShape == ASSUME SlackShape, FetchesParent \/ ParentFails PROVE SlackShape'
<1> USE DEF SlackShape
<1>1. WantsParent /\ UNCHANGED <<talk, said, socket, posting, events, rows, days, marked, toldOf, behind>>
  BY DEF FetchesParent, ParentFails, channel, theRecord, notes
<1>2. /\ handling.live /\ First \in Items /\ First.ts \in DOMAIN said /\ First.thread = Saying(First.ts).thread /\ ~First.replies
      /\ Rest = <<>> /\ First.thread \in DOMAIN said /\ First.thread < First.ts /\ Saying(First.thread).thread = 0
  BY <1>1, WantedParent
<1>3. PICK a \in Items : /\ a = [First EXCEPT !.alone = TRUE]
                         /\ a.ts = First.ts /\ a.thread = First.thread /\ a.replies = First.replies /\ a.alone
  BY <1>2, AloneFacts
<1>4. PICK p \in Items : /\ p = Quietly(FromApi(First.thread))
                         /\ p.ts = First.thread /\ p.thread = 0 /\ ~p.replies
  BY <1>2, FromApiFacts
<1>5. At("next", <<a>>) \/ At("next", <<p, a>>)
  <2>1. CASE ParentFails
    <3>1. At("next", <<a>> \o <<>>)
      BY <1>2, <1>3, <2>1 DEF ParentFails
    <3>2. <<a>> \o <<>> = <<a>>
      OBVIOUS
    <3> QED BY <3>1, <3>2
  <2>2. CASE FetchesParent
    <3>1. At("next", <<>> \o <<a>> \o <<>>) \/ At("next", <<p>> \o <<a>> \o <<>>)
      BY <1>2, <1>3, <1>4, <2>2 DEF FetchesParent
    <3>2. <<a>> \in Seq(Items) /\ <<p, a>> \in Seq(Items) /\ <<p>> \in Seq(Items)
      OBVIOUS
    <3>3. <<>> \o <<a>> = <<a>> /\ <<a>> \o <<>> = <<a>> /\ <<p, a>> \o <<>> = <<p, a>>
      BY <3>2, ConcatEmptySeq
    <3>4. <<p>> \o <<a>> = <<p, a>>
      <4>1. /\ <<p>> \o <<a>> \in Seq(Items) /\ Len(<<p>> \o <<a>>) = 2
            /\ (<<p>> \o <<a>>)[1] = p /\ (<<p>> \o <<a>>)[2] = a
        BY <3>2
      <4>2. Len(<<p, a>>) = 2 /\ <<p, a>>[1] = p /\ <<p, a>>[2] = a
        OBVIOUS
      <4> DEFINE s == <<p>> \o <<a>>
                 t == <<p, a>>
      <4>3. s \in Seq(Items) /\ t \in Seq(Items) /\ Len(s) = Len(t) /\ Len(s) = 2 /\ s[1] = t[1] /\ s[2] = t[2]
        BY <3>2, <4>1, <4>2
      <4> HIDE DEF s, t
      <4>4. \A i \in 1..Len(s) : s[i] = t[i]
        BY <4>3
      <4>5. s = t
        BY <4>3, <4>4, SeqEqual
      <4> QED BY <4>5 DEF s, t
    <3> QED BY <3>1, <3>3, <3>4
  <2> QED BY <2>1, <2>2
<1>6. CASE At("next", <<a>>)
  <2>1. At("next", <<[First EXCEPT !.alone = TRUE]>>)
    BY <1>3, <1>6
  <2> QED BY <1>1, <2>1, AloneShape, OnlyHandling
<1>7. CASE At("next", <<p, a>>)
  <2>1. <<p, a>> \in Seq(Items) /\ "next" \in {"idle", "next", "write", "thread"}
    BY <1>3, <1>4
  <2>2. /\ handling' \in [at : {"idle", "next", "write", "thread"}, items : Seq(Items), live : BOOLEAN, raises : BOOLEAN, new : BOOLEAN]
        /\ handling'.at = "next" /\ handling'.items = <<p, a>> /\ handling'.live = handling.live
    BY <1>7, <2>1, AtGives
  <2>3. InHand' = {1, 2} /\ ItemOf(1)' = p /\ ItemOf(2)' = a /\ Len(handling'.items) = 2
    BY <2>2 DEF InHand, ItemOf
  <2>4. p.ts \in Nat /\ a.ts \in Nat /\ p.ts < a.ts
    BY <1>2, <1>3, <1>4, SaidFacts
  <2>5. ItemsFit'
    BY <1>1, <1>2, <1>3, <1>4, <2>2, <2>3, ZenonT(30) DEF ItemsFit, Saying
  <2>6. ItemsApart'
    BY <2>3, <2>4 DEF ItemsApart
  <2>7. FilledInOrder'
    BY <1>2, <2>2 DEF FilledInOrder
  <2>8. HandlingShape'
    BY <1>3, <1>4, <2>2, <2>3, <2>4, <2>5, <2>6, <2>7 DEF HandlingShape
  <2> QED BY <1>1, <2>2, <2>8, OnlyHandling
<1> QED BY <1>5, <1>6, <1>7

Handlings == [at : {"idle", "next", "write", "thread"}, items : Seq(Items), live : BOOLEAN, raises : BOOLEAN, new : BOOLEAN]

\* Replies of a thread filled in: m of them, before the rest.
ThreadTaken(m) ==
  LET n == Len(handling.items) IN
  /\ m \in Nat /\ InHand' = 1..(m + n - 1) /\ handling' \in Handlings
  /\ handling'.at = "next" /\ handling'.live = handling.live /\ Len(handling'.items) = m + n - 1
  /\ \A k \in 1..m : LET i == ItemOf(k)' IN
       /\ i \in Items /\ i.ts \in DOMAIN said /\ Saying(i.ts).thread = First.ts /\ i.thread = First.ts /\ ~said[i.ts].deleted
       /\ i.text = said[i.ts].text /\ i.reacted = said[i.ts].reacted /\ ~i.quiet /\ ~i.alone /\ ~i.replies
  /\ \A j, k \in 1..m : j < k => ItemOf(j)'.ts < ItemOf(k)'.ts
  /\ \A k \in (m + 1)..(m + n - 1) : k - m + 1 \in InHand /\ k - m + 1 # 1 /\ ItemOf(k)' = ItemOf(k - m + 1)
  /\ \A k \in InHand : k # 1 => k + m - 1 \in InHand' /\ k + m - 1 > m /\ ItemOf(k + m - 1)' = ItemOf(k)

LEMMA ThreadTakes ==
  ASSUME SlackShape, FetchesThread
  PROVE  At("next", Rest) \/ \E m : ThreadTaken(m)
<1> USE DEF SlackShape
<1> DEFINE replies == {r \in DOMAIN said : Saying(r).thread = First.ts /\ ~said[r].deleted}
           s == AsSaid(replies)
           n == Len(handling.items)
<1>0. PICK m : m = Cardinality(replies)
  OBVIOUS
<1> DEFINE items == [i \in 1..m |-> FromApi(s[i])]
<1>1. At("next", Rest) \/ At("next", items \o Rest)
  BY <1>0 DEF FetchesThread
<1>2. handling.at = "thread" /\ handling.items # <<>>
  BY DEF FetchesThread, HandlingShape
<1>3. handling.items \in Seq(Items) /\ n \in Nat /\ InHand = 1..n
  BY HandlingFacts
<1>4. /\ Rest \in Seq(Items) /\ n >= 1 /\ Len(Rest) = n - 1 /\ DOMAIN Rest = 1..(n - 1)
      /\ \A k \in DOMAIN Rest : k + 1 \in InHand /\ Rest[k] = ItemOf(k + 1)
  BY <1>2, <1>3, TailFacts DEF Rest, InHand, ItemOf
<1>5. replies \in SUBSET (1..Len(said)) /\ Len(said) \in Nat
  BY SaidFacts
<1>6. ASSUME NEW ts \in replies
      PROVE  LET i == FromApi(ts) IN
             /\ i \in Items /\ i.ts = ts /\ ts \in DOMAIN said /\ Saying(ts).thread = First.ts /\ i.thread = First.ts /\ ~said[ts].deleted
             /\ i.text = said[ts].text /\ i.reacted = said[ts].reacted /\ ~i.quiet /\ ~i.alone /\ ~i.replies
  <2>1. ts \in DOMAIN said /\ Saying(ts).thread = First.ts /\ ~said[ts].deleted
    OBVIOUS
  <2> QED BY <2>1, FromApiFacts
<1> HIDE DEF replies
<1>7. /\ m \in Nat /\ s \in Seq(replies) /\ Len(s) = m /\ DOMAIN s = 1..m
      /\ \A x \in replies : \E i \in 1..m : s[i] = x
      /\ \A i \in 1..m : s[i] \in replies
      /\ \A i, j \in 1..m : i < j => s[i] < s[j]
  BY <1>0, <1>5, SaidInOrder
<1> HIDE DEF s, n
<1>8. items \in Seq(Items) /\ Len(items) = m /\ DOMAIN items = 1..m /\ \A i \in 1..m : items[i] = FromApi(s[i])
  <2>1. \A i \in 1..m : FromApi(s[i]) \in Items
    BY <1>6, <1>7
  <2> QED BY <1>7, <2>1
<1> HIDE DEF items
<1>9. /\ items \o Rest \in Seq(Items) /\ Len(items \o Rest) = m + (n - 1)
      /\ \A k \in 1..(m + (n - 1)) : (items \o Rest)[k] = IF k <= m THEN items[k] ELSE Rest[k - m]
  <2> DEFINE r == Rest
  <2>1. r \in Seq(Items) /\ Len(r) = n - 1 /\ Rest = r
    BY <1>4
  <2> HIDE DEF r
  <2>2. /\ items \o r \in Seq(Items) /\ Len(items \o r) = Len(items) + Len(r)
        /\ \A k \in 1..(Len(items) + Len(r)) : (items \o r)[k] = IF k <= Len(items) THEN items[k] ELSE r[k - Len(items)]
    BY <1>8, <2>1, ConcatProperties
  <2>3. Len(items) = m
    BY <1>8
  <2> HIDE DEF items
  <2> QED BY <2>1, <2>2, <2>3
<1>10. ASSUME At("next", items \o Rest) PROVE ThreadTaken(m)
  <2>1. /\ handling' \in Handlings /\ handling'.at = "next" /\ handling'.items = items \o Rest /\ handling'.live = handling.live
    <3>1. "next" \in {"idle", "next", "write", "thread"}
      OBVIOUS
    <3> QED BY <1>9, <1>10, <3>1, AtGives DEF Handlings
  <2>2. InHand' = 1..(m + n - 1) /\ Len(handling'.items) = m + n - 1
    BY <1>3, <1>7, <1>9, <2>1 DEF InHand
  <2>3. \A k \in 1..m : ItemOf(k)' = FromApi(s[k])
    <3> SUFFICES ASSUME NEW k \in 1..m PROVE ItemOf(k)' = FromApi(s[k])
      OBVIOUS
    <3>1. k \in 1..(m + (n - 1)) /\ k <= m
      BY <1>3, <1>4, <1>7
    <3>2. (items \o Rest)[k] = items[k]
      BY <1>9, <3>1
    <3> QED BY <1>8, <2>1, <3>2 DEF ItemOf
  <2>4. ASSUME NEW k \in (m + 1)..(m + n - 1) PROVE k - m + 1 \in InHand /\ k - m + 1 # 1 /\ ItemOf(k)' = ItemOf(k - m + 1)
    <3>1. k \in 1..(m + (n - 1)) /\ ~(k <= m) /\ k - m \in 1..(n - 1)
      BY <1>3, <1>7
    <3>2. (items \o Rest)[k] = Rest[k - m]
      BY <1>9, <3>1
    <3>3. (k - m) + 1 \in InHand /\ Rest[k - m] = ItemOf((k - m) + 1)
      BY <1>4, <3>1
    <3>4. k - m + 1 # 1
      BY <1>3, <1>7, <3>1
    <3> QED BY <2>1, <3>2, <3>3, <3>4 DEF ItemOf
  <2>5. ASSUME NEW k \in InHand, k # 1 PROVE k + m - 1 \in InHand' /\ k + m - 1 > m /\ ItemOf(k + m - 1)' = ItemOf(k)
    <3>1. k + m - 1 \in (m + 1)..(m + n - 1) /\ (k + m - 1) - m + 1 = k /\ k + m - 1 \in 1..(m + n - 1)
      BY <1>3, <1>7, <2>5
    <3>2. ItemOf(k + m - 1)' = ItemOf((k + m - 1) - m + 1)
      BY <2>4, <3>1
    <3> QED BY <1>3, <1>7, <2>2, <3>1, <3>2
  <2>6. \A k \in 1..m : LET i == ItemOf(k)' IN
       /\ i \in Items /\ i.ts \in DOMAIN said /\ Saying(i.ts).thread = First.ts /\ i.thread = First.ts /\ ~said[i.ts].deleted
       /\ i.text = said[i.ts].text /\ i.reacted = said[i.ts].reacted /\ ~i.quiet /\ ~i.alone /\ ~i.replies
    <3> SUFFICES ASSUME NEW k \in 1..m
                 PROVE  LET i == ItemOf(k)' IN
       /\ i \in Items /\ i.ts \in DOMAIN said /\ Saying(i.ts).thread = First.ts /\ i.thread = First.ts /\ ~said[i.ts].deleted
       /\ i.text = said[i.ts].text /\ i.reacted = said[i.ts].reacted /\ ~i.quiet /\ ~i.alone /\ ~i.replies
      OBVIOUS
    <3>1. s[k] \in replies /\ ItemOf(k)' = FromApi(s[k])
      BY <1>7, <2>3
    <3>2. FromApi(s[k]).ts = s[k]
      BY <1>6, <3>1
    <3> QED BY <1>6, <3>1, <3>2
  <2>7. \A j, k \in 1..m : j < k => ItemOf(j)'.ts < ItemOf(k)'.ts
    <3>1. \A k \in 1..m : ItemOf(k)'.ts = s[k]
      BY <1>6, <1>7, <2>3
    <3> QED BY <1>7, <3>1
  <2> QED BY <1>7, <2>1, <2>2, <2>4, <2>5, <2>6, <2>7 DEF ThreadTaken, n
<1> QED BY <1>1, <1>10

LEMMA ThreadShape == ASSUME SlackShape, FetchesThread PROVE SlackShape'
<1> USE DEF SlackShape
<1> DEFINE n == Len(handling.items)
<1>1. UNCHANGED <<talk, said, socket, posting, events, rows, days, marked, toldOf, behind>>
  BY DEF FetchesThread, channel, theRecord, notes
<1>2. handling.items # <<>> /\ HasRow(First.ts) /\ First.replies /\ First = ItemOf(1) /\ 1 \in InHand /\ InHand = 1..n /\ n \in Nat
  <2>1. handling.at = "thread" /\ handling.items # <<>>
    BY DEF FetchesThread, HandlingShape
  <2> QED BY <2>1, HandlingFacts DEF HandlingShape
<1>3. ~handling.live /\ Saying(First.ts).thread = 0 /\ First.ts \in DOMAIN said
  BY <1>2 DEF HandlingShape, ItemsFit
<1>4. First.ts # 0
  BY <1>3, SaidFacts
<1>5. CASE At("next", Rest)
  BY <1>1, <1>2, <1>5, RestShape, OnlyHandling
<1>6. CASE \E m : ThreadTaken(m)
  <2> PICK m : ThreadTaken(m)
    BY <1>6
  <2>1. /\ m \in Nat /\ InHand' = 1..(m + n - 1) /\ handling' \in Handlings
        /\ handling'.at = "next" /\ handling'.live = handling.live
        /\ \A k \in 1..m : /\ ItemOf(k)'.ts \in DOMAIN said /\ Saying(ItemOf(k)'.ts).thread = First.ts
                           /\ ItemOf(k)'.thread = First.ts /\ ~ItemOf(k)'.replies
        /\ \A j, k \in 1..m : j < k => ItemOf(j)'.ts < ItemOf(k)'.ts
        /\ \A k \in (m + 1)..(m + n - 1) : k - m + 1 \in InHand /\ k - m + 1 # 1 /\ ItemOf(k)' = ItemOf(k - m + 1)
    BY DEF ThreadTaken
  <2> HIDE DEF n
  <2>2. \A ts : Saying(ts)' = Saying(ts) /\ (HasRow(ts)' <=> HasRow(ts))
    BY <1>1 DEF Saying, HasRow
  <2>3. \A k \in InHand' : k \in 1..m \/ k \in (m + 1)..(m + n - 1)
    BY <1>2, <2>1
  <2>4. \A k \in InHand : k # 1 => Saying(ItemOf(k).ts).thread = 0 /\ ItemOf(1).ts < ItemOf(k).ts
    BY <1>2, <1>3 DEF HandlingShape, FilledInOrder
  <2>5. \A k \in (m + 1)..(m + n - 1) : Saying(ItemOf(k)'.ts).thread = 0
    BY <2>1, <2>4
  <2>6. ItemsFit'
    <3> SUFFICES ASSUME NEW k \in InHand'
                 PROVE  /\ ItemOf(k)'.ts \in DOMAIN said /\ ItemOf(k)'.thread = Saying(ItemOf(k)'.ts).thread
                        /\ (ItemOf(k)'.replies => Saying(ItemOf(k)'.ts).thread = 0)
                        /\ (ItemOf(k)'.thread # 0 => HasRow(ItemOf(k)'.thread))
      BY <1>1, <1>3, <2>1, <2>2 DEF ItemsFit, Saying, HasRow
    <3>1. CASE k \in 1..m
      BY <1>2, <2>1, <3>1
    <3>2. CASE k \in (m + 1)..(m + n - 1)
      <4>1. k - m + 1 \in InHand /\ ItemOf(k)' = ItemOf(k - m + 1)
        BY <2>1, <3>2
      <4> QED BY <1>3, <4>1 DEF ItemsFit, HandlingShape
    <3> QED BY <2>3, <3>1, <3>2
  <2>7. ItemsApart'
    <3> SUFFICES ASSUME NEW j \in InHand', NEW k \in InHand', ItemOf(j)'.ts = ItemOf(k)'.ts PROVE j = k
      BY DEF ItemsApart
    <3>1. CASE j \in 1..m /\ k \in 1..m
      <4>1. ItemOf(j)'.ts \in Nat
        BY <2>1, <3>1, SaidFacts
      <4>2. ~(j < k) /\ ~(k < j)
        BY <2>1, <3>1, <4>1
      <4> QED BY <3>1, <4>2
    <3>2. CASE j \in 1..m /\ k \in (m + 1)..(m + n - 1)
      BY <1>4, <2>1, <2>5, <3>2
    <3>3. CASE k \in 1..m /\ j \in (m + 1)..(m + n - 1)
      BY <1>4, <2>1, <2>5, <3>3
    <3>4. CASE k \in (m + 1)..(m + n - 1) /\ j \in (m + 1)..(m + n - 1)
      <4>1. k - m + 1 = j - m + 1
        BY <2>1, <3>4 DEF ItemsApart, HandlingShape
      <4> QED BY <1>2, <2>1, <3>4, <4>1
    <3> QED BY <2>3, <3>1, <3>2, <3>3, <3>4
  <2>8. FilledInOrder'
    <3> SUFFICES ASSUME NEW j \in InHand', NEW k \in InHand', j < k, Saying(ItemOf(j)'.ts).thread = 0
                 PROVE  Saying(ItemOf(k)'.ts).thread = 0 /\ ItemOf(j)'.ts < ItemOf(k)'.ts
      BY <1>1 DEF FilledInOrder, Saying
    <3>1. ~(j \in 1..m)
      BY <1>4, <2>1
    <3>2. j \in (m + 1)..(m + n - 1) /\ k \in (m + 1)..(m + n - 1)
      BY <1>2, <2>1, <2>3, <3>1
    <3>3. j - m + 1 \in InHand /\ k - m + 1 \in InHand /\ ItemOf(j)' = ItemOf(j - m + 1) /\ ItemOf(k)' = ItemOf(k - m + 1)
      BY <2>1, <3>2
    <3>4. j - m + 1 < k - m + 1
      BY <1>2, <2>1, <3>2
    <3> QED BY <1>3, <3>3, <3>4 DEF FilledInOrder, HandlingShape
  <2>9. HandlingShape'
    BY <1>3, <2>1, <2>6, <2>7, <2>8 DEF HandlingShape
  <2> QED BY <1>1, <2>1, <2>9, OnlyHandling DEF Handlings
<1> QED BY <1>5, <1>6, ThreadTakes

\* At the row or at the file of a message.
LEMMA FirstFits ==
  ASSUME SlackShape, handling.items # <<>>
  PROVE  First \in Items /\ First = ItemOf(1) /\ 1 \in InHand /\ First.ts \in DOMAIN said /\ First.ts \in TimeStamps /\ First.ts \in Nat
<1>1. First \in Items /\ First = ItemOf(1) /\ 1 \in InHand
  BY HandlingFacts DEF SlackShape
<1>2. First.ts \in DOMAIN said
  BY <1>1 DEF SlackShape, HandlingShape, ItemsFit
<1> QED BY <1>1, <1>2, SaidFacts DEF SlackShape

LEMMA RowTakes ==
  ASSUME SlackShape, RecordsRow
  PROVE  LET ts == First.ts IN
         /\ handling.items # <<>> /\ handling.at = "next"
         /\ rows' = [rows EXCEPT ![ts] = RowWith(First)]
         /\ handling' \in Handlings /\ handling'.at = "write" /\ handling'.items = handling.items
         /\ handling'.live = handling.live /\ handling'.raises = handling.raises /\ handling'.new = (~HasRow(ts))
         /\ InHand' = InHand /\ First' = First /\ (\A k : ItemOf(k)' = ItemOf(k))
         /\ UNCHANGED <<talk, said, socket, posting, events, days, marked, toldOf, spoiled, behind>>
<1>1. /\ rows' = [rows EXCEPT ![First.ts] = RowWith(First)]
      /\ handling.items # <<>> /\ handling.at = "next"
      /\ UNCHANGED <<talk, said, socket, posting, events, days, marked, toldOf, spoiled, behind>>
      /\ handling' = [handling EXCEPT !.at = "write", !.new = ~HasRow(First.ts)]
  BY DEF RecordsRow, channel
<1>2. /\ handling' \in Handlings /\ handling'.at = "write" /\ handling'.items = handling.items
      /\ handling'.live = handling.live /\ handling'.raises = handling.raises /\ handling'.new = (~HasRow(First.ts))
  <2>1. handling \in Handlings
    BY DEF SlackShape, SlackTypes, Handlings
  <2> DEFINE new == ~HasRow(First.ts)
  <2>2. new \in BOOLEAN
    OBVIOUS
  <2>3. handling' = [handling EXCEPT !.at = "write", !.new = new]
    BY <1>1
  <2> HIDE DEF new
  <2>4. ASSUME NEW h \in Handlings, NEW b \in BOOLEAN
        PROVE  LET w == [h EXCEPT !.at = "write", !.new = b] IN
               w \in Handlings /\ w.at = "write" /\ w.items = h.items /\ w.live = h.live /\ w.raises = h.raises /\ w.new = b
    BY DEF Handlings
  <2>5. LET w == [handling EXCEPT !.at = "write", !.new = new] IN
        w \in Handlings /\ w.at = "write" /\ w.items = handling.items /\ w.live = handling.live /\ w.raises = handling.raises /\ w.new = new
    BY <2>1, <2>2, <2>4
  <2> QED BY <2>3, <2>5 DEF new
<1>3. InHand' = InHand /\ First' = First /\ (\A k : ItemOf(k)' = ItemOf(k))
  BY <1>2 DEF InHand, First, ItemOf
<1> QED BY <1>1, <1>2, <1>3

LEMMA RowShape == ASSUME SlackShape, RecordsRow PROVE SlackShape'
<1> USE DEF SlackShape
<1> DEFINE ts == First.ts
           row == RowWith(First)
<1>1. /\ handling.items # <<>> /\ handling.at = "next" /\ rows' = [rows EXCEPT ![ts] = row]
      /\ handling' \in Handlings /\ handling'.at = "write" /\ handling'.items = handling.items /\ handling'.live = handling.live
      /\ InHand' = InHand /\ First' = First /\ (\A k : ItemOf(k)' = ItemOf(k))
      /\ UNCHANGED <<talk, said, socket, posting, events, days, marked, toldOf, behind>>
  BY RowTakes
<1>2. First \in Items /\ ts \in DOMAIN said /\ ts \in TimeStamps
  BY <1>1, FirstFits
<1>3. row \in SlackRows
  BY <1>2, RecordedRow
<1> HIDE DEF row
<1>4. PICK at \in TimeStamps : at = ts
  BY <1>2
<1>5. /\ rows' \in [TimeStamps -> SlackRows \cup {NoRow}] /\ HasRow(at)'
      /\ \A t \in TimeStamps \ {at} : HasRow(t)' <=> HasRow(t)
      /\ \A t \in TimeStamps : HasRow(t) => HasRow(t)'
  BY <1>1, <1>3, <1>4, RowWritten
<1>6. SlackTypes'
  BY <1>1, <1>5 DEF SlackTypes, Handlings
<1>7. OfWhatWasSaid'
  <2>1. \A t \in TimeStamps : HasRow(t)' => t \in DOMAIN said'
    BY <1>1, <1>2, <1>4, <1>5 DEF OfWhatWasSaid
  <2> QED BY <1>1, <2>1 DEF OfWhatWasSaid, Saying, EventFits, Gives
<1>8. \A t : Saying(t)' = Saying(t)
  BY <1>1 DEF Saying
<1>9. ItemsFit'
  <2> SUFFICES ASSUME NEW k \in InHand
               PROVE  /\ ItemOf(k).ts \in DOMAIN said /\ ItemOf(k).thread \in {0, Saying(ItemOf(k).ts).thread}
                      /\ (ItemOf(k).replies => ~handling.live /\ Saying(ItemOf(k).ts).thread = 0)
                      /\ ~handling.live => /\ ItemOf(k).thread = Saying(ItemOf(k).ts).thread
                                           /\ ItemOf(k).thread # 0 => HasRow(ItemOf(k).thread)'
    BY <1>1 DEF ItemsFit, Saying, HasRow
  <2>1. ItemOf(k) \in Items
    BY HandlingFacts
  <2>2. ItemOf(k).thread # 0 => ItemOf(k).thread \in TimeStamps
    BY <2>1 DEF Items
  <2>3. /\ ItemOf(k).ts \in DOMAIN said /\ ItemOf(k).thread \in {0, Saying(ItemOf(k).ts).thread}
        /\ (ItemOf(k).replies => ~handling.live /\ Saying(ItemOf(k).ts).thread = 0)
        /\ ~handling.live => /\ ItemOf(k).thread = Saying(ItemOf(k).ts).thread
                             /\ ItemOf(k).thread # 0 => HasRow(ItemOf(k).thread)
    BY DEF ItemsFit, HandlingShape
  <2>4. (ItemOf(k).thread # 0 /\ HasRow(ItemOf(k).thread)) => HasRow(ItemOf(k).thread)'
    <3>1. PICK t : t = ItemOf(k).thread
      OBVIOUS
    <3>2. (t # 0 /\ HasRow(t)) => HasRow(t)'
      BY <1>5, <2>2, <3>1
    <3> QED BY <1>1, <3>1, <3>2 DEF HasRow
  <2> QED BY <2>3, <2>4
<1>10. ItemsApart' /\ FilledInOrder'
  BY <1>1, <1>8 DEF ItemsApart, FilledInOrder, HandlingShape, Saying
<1>11. HasRow(First.ts)'
  BY <1>1, <1>4, <1>5 DEF HasRow
<1>12. HandlingShape'
  BY <1>1, <1>9, <1>10, <1>11 DEF HandlingShape
<1> QED BY <1>6, <1>7, <1>12

LEMMA LinesBefore == ASSUME SlackTypes, NEW ts \in TimeStamps PROVE LineNow(ts) \in Nat
<1>1. IsFiniteSet(TimeStamps)
  <2>1. TimeStamps = 1..Len(DaySaid) /\ Len(DaySaid) \in Nat
    BY SaidFacts
  <2> QED BY <2>1, FS_Interval
<1>2. {t \in RowsOf(rows, rows[ts].day) : rows[t].line < rows[ts].line} \in SUBSET TimeStamps
  BY DEF RowsOf
<1>3. IsFiniteSet({t \in RowsOf(rows, rows[ts].day) : rows[t].line < rows[ts].line})
  BY <1>1, <1>2, FS_Subset
<1> QED BY <1>3, FS_CardinalityType DEF LineNow

LEMMA GoesOnShape ==
  ASSUME SlackShape, handling.at = "write", GoesOn, UNCHANGED <<talk, said, rows>>
  PROVE  HandlingShape' /\ handling' \in Handlings
<1> USE DEF SlackShape
<1>1. handling.items # <<>> /\ HasRow(First.ts)
  BY DEF HandlingShape
<1>2. CASE First.replies
  <2>1. At("thread", handling.items) /\ handling.items \in Seq(Items) /\ "thread" \in {"idle", "next", "write", "thread"}
    BY <1>2, HandlingFacts DEF GoesOn
  <2>2. handling' \in Handlings /\ handling'.at = "thread" /\ handling'.items = handling.items /\ handling'.live = handling.live
    BY <2>1, AtGives DEF Handlings
  <2>3. InHand' = InHand /\ First' = First /\ (\A k : ItemOf(k)' = ItemOf(k)) /\ handling'.items # <<>>
    BY <1>1, <2>2 DEF InHand, First, ItemOf
  <2>4. \A t : Saying(t)' = Saying(t) /\ (HasRow(t)' <=> HasRow(t))
    BY DEF Saying, HasRow
  <2>5. ItemsFit' /\ ItemsApart' /\ FilledInOrder'
    <3>1. ItemsFit'
      BY <2>2, <2>3 DEF ItemsFit, HandlingShape, Saying, HasRow
    <3>2. ItemsApart'
      BY <2>3 DEF ItemsApart, HandlingShape
    <3>3. FilledInOrder'
      BY <2>2, <2>3 DEF FilledInOrder, HandlingShape, Saying
    <3> QED BY <3>1, <3>2, <3>3
  <2>6. HasRow(First.ts)'
    BY <1>1, <2>3 DEF HasRow
  <2>7. HandlingShape'
    BY <1>2, <2>2, <2>3, <2>5, <2>6 DEF HandlingShape
  <2> QED BY <2>2, <2>7
<1>3. CASE ~First.replies
  BY <1>1, <1>3, RestShape DEF GoesOn, Handlings
<1> QED BY <1>2, <1>3

LEMMA FileTakes ==
  ASSUME SlackShape, RecordsFile
  PROVE  LET ts == First.ts
             told == [ts |-> ts, day |-> rows[ts].day, line |-> LineNow(ts)] IN
         /\ handling.at = "write" /\ handling.items # <<>> /\ HasRow(ts) /\ rows[ts].day \in Range(DaySaid) /\ GoesOn
         /\ days' = [days EXCEPT ![rows[ts].day] = DayFile(rows, rows[ts].day)] /\ DOMAIN days' = DOMAIN days
         /\ spoiled' = spoiled \ {rows[ts].day}
         /\ told \in ToldOnes /\ marked' \subseteq TimeStamps /\ toldOf' \in Seq(ToldOnes)
         /\ \/ Raises(First) /\ ts \notin marked /\ marked' = marked \cup {ts} /\ toldOf' = Append(toldOf, told)
            \/ ~Raises(First) /\ UNCHANGED <<marked, toldOf>>
         /\ UNCHANGED <<talk, said, socket, posting, events, rows, unsure, hushed, missed, behind>>
<1> USE DEF SlackShape
<1> DEFINE ts == First.ts
           told == [ts |-> ts, day |-> rows[ts].day, line |-> LineNow(ts)]
<1>1. handling.at = "write" /\ handling.items # <<>> /\ HasRow(ts) /\ GoesOn
  BY DEF RecordsFile, HandlingShape
<1>2. ts \in TimeStamps
  BY <1>1, FirstFits
<1>3. rows[ts].day \in Range(DaySaid)
  <2>1. rows[ts] \in SlackRows
    BY <1>1, <1>2, RowFacts
  <2> QED BY <2>1 DEF SlackRows
<1>4. told \in ToldOnes
  BY <1>2, <1>3, LinesBefore DEF ToldOnes
<1>5. /\ days' = [days EXCEPT ![rows[ts].day] = DayFile(rows, rows[ts].day)]
      /\ spoiled' = spoiled \ {rows[ts].day}
      /\ UNCHANGED <<talk, said, socket, posting, events, rows, unsure, hushed, missed, behind>>
  BY DEF RecordsFile, channel
<1>6. \/ Raises(First) /\ ts \notin marked /\ marked' = marked \cup {ts} /\ toldOf' = Append(toldOf, told)
      \/ ~Raises(First) /\ UNCHANGED <<marked, toldOf>>
  BY DEF RecordsFile, Raises
<1> HIDE DEF told
<1>7. marked' \subseteq TimeStamps /\ toldOf' \in Seq(ToldOnes)
  <2>1. marked \subseteq TimeStamps /\ toldOf \in Seq(ToldOnes)
    BY DEF SlackTypes
  <2>2. marked' = marked \/ marked' = marked \cup {ts}
    BY <1>6
  <2>3. marked' \subseteq TimeStamps
    BY <1>2, <2>1, <2>2
  <2>4. toldOf' = toldOf \/ toldOf' = Append(toldOf, told)
    BY <1>6
  <2>5. Append(toldOf, told) \in Seq(ToldOnes)
    BY <1>4, <2>1
  <2> QED BY <2>1, <2>3, <2>4, <2>5
<1> QED BY <1>1, <1>3, <1>4, <1>5, <1>6, <1>7 DEF told

LEMMA FileShape == ASSUME SlackShape, RecordsFile \/ FileFails PROVE SlackShape'
<1> USE DEF SlackShape
<1>1. handling.at = "write" /\ GoesOn /\ UNCHANGED <<talk, said, socket, posting, events, rows, behind>>
  BY DEF RecordsFile, FileFails, channel, theRecord
<1>2. HandlingShape' /\ handling' \in Handlings
  BY <1>1, GoesOnShape
<1>3. DOMAIN days' = DOMAIN days /\ marked' \subseteq TimeStamps /\ toldOf' \in Seq(ToldOnes)
  <2>1. CASE RecordsFile
    BY <2>1, FileTakes
  <2>2. CASE FileFails
    BY <2>2 DEF FileFails, theRecord, SlackTypes
  <2> QED BY <2>1, <2>2
<1>4. SlackTypes'
  BY <1>1, <1>2, <1>3 DEF SlackTypes, Handlings
<1>5. OfWhatWasSaid'
  BY <1>1 DEF OfWhatWasSaid, HasRow, Saying, EventFits, Gives
<1> QED BY <1>2, <1>4, <1>5

LEMMA HandledShape == ASSUME SlackShape, Handled PROVE SlackShape'
<1>1. handling' = AtRest /\ UNCHANGED <<talk, said, socket, posting, events, rows, days, marked, toldOf, behind>>
  BY DEF Handled, channel, theRecord, notes
<1>2. AtRest \in [at : {"idle", "next", "write", "thread"}, items : Seq(Items), live : BOOLEAN, raises : BOOLEAN, new : BOOLEAN]
      /\ ((handling = AtRest) => HandlingShape)'
  BY AtRestFits, PTL
<1> QED BY <1>1, <1>2, OnlyHandling

LEMMA InitShape == ASSUME SlackInit PROVE SlackShape
<1>1. /\ talk \in Talks /\ said = <<>> /\ socket = "away" /\ posting = 0
      /\ events = <<>> /\ handling = AtRest
      /\ rows = [ts \in TimeStamps |-> NoRow] /\ days = [day \in Range(DaySaid) |-> <<>>]
      /\ marked = {} /\ toldOf = <<>> /\ behind = TRUE
  BY DEF SlackInit
<1>2. AtRest \in [at : {"idle", "next", "write", "thread"}, items : Seq(Items), live : BOOLEAN, raises : BOOLEAN, new : BOOLEAN]
      /\ HandlingShape
  BY <1>1, AtRestFits
<1>3. Len(talk.says) \in Nat
  BY <1>1, TalkFacts
<1>4. SlackTypes
  <2>1. said \in Seq(SaidOnes) /\ Len(said) = 0 /\ events \in Seq(SlackEvents) /\ toldOf \in Seq(ToldOnes)
    BY <1>1
  <2> QED BY <1>1, <1>2, <1>3, <2>1 DEF SlackTypes
<1>5. \A ts \in TimeStamps : ~HasRow(ts)
  BY <1>1 DEF HasRow
<1>6. OfWhatWasSaid
  BY <1>1, <1>5 DEF OfWhatWasSaid
<1> QED BY <1>2, <1>4, <1>6 DEF SlackShape

LEMMA SameShape == ASSUME SlackShape, UNCHANGED slackVars PROVE SlackShape'
<1> USE DEF SlackShape
<1>1. UNCHANGED <<talk, said, socket, posting, events, handling, rows, days, marked, toldOf, behind>>
  BY DEF slackVars, channel, theRecord, notes
<1>2. HandlingShape'
  BY <1>1, HandlingStays
<1>3. handling' \in [at : {"idle", "next", "write", "thread"}, items : Seq(Items), live : BOOLEAN, raises : BOOLEAN, new : BOOLEAN]
  BY <1>1 DEF SlackTypes
<1> QED BY <1>1, <1>2, <1>3, OnlyHandling

LEMMA NextShape == ASSUME SlackShape, SlackNext PROVE SlackShape'
<1>1. CASE SlackSays
  <2>1. Says("person") /\ posting' = posting /\ UNCHANGED <<talk, socket, handling, theRecord, behind>>
    BY <1>1 DEF SlackSays
  <2> QED BY <2>1, SaysShape
<1>2. CASE NatsumiPosts
  <2>1. Says("natsumi") /\ posting' = Len(said) + 1 /\ UNCHANGED <<talk, socket, handling, theRecord, behind>>
    BY <1>2 DEF NatsumiPosts
  <2> QED BY <2>1, SaysShape
<1>3. CASE RecordOwn
  BY <1>3, OwnShape
<1>4. ASSUME NEW ts \in DOMAIN said, SlackEdits(ts) \/ SlackDeletes(ts) \/ \E who \in Speakers : SlackReacts(ts, who)
      PROVE  SlackShape'
  BY <1>4, EditsShape, DeletesShape, ReactsShape
<1>5. ASSUME NEW i \in DOMAIN events, SlackRepeats(i) PROVE SlackShape'
  BY <1>5, RepeatsShape
<1>6. CASE SlackStarts \/ SlackConnects \/ SocketCloses
  BY <1>6, SocketShape
<1>7. CASE SlackDies
  BY <1>7, DiesShape
<1>8. CASE TakesMessage \/ TakesChanged
  BY <1>8, TakesOneShape
<1>9. CASE TakesDeleted \/ TakesReacted \/ TakesUnreacted
  BY <1>9, TakesChangeShape
<1>10. CASE TakesFill
  BY <1>10, FillShape
<1>11. CASE FillFails \/ EventFails
  BY <1>11, DropsShape
<1>12. CASE FetchesParent \/ ParentFails
  BY <1>12, ParentShape
<1>13. CASE RecordsRow
  BY <1>13, RowShape
<1>14. CASE RecordsFile \/ FileFails
  BY <1>14, FileShape
<1>15. CASE FetchesThread
  BY <1>15, ThreadShape
<1>16. CASE Handled
  BY <1>16, HandledShape
<1> QED BY <1>1, <1>2, <1>3, <1>4, <1>5, <1>6, <1>7, <1>8, <1>9, <1>10, <1>11, <1>12, <1>13, <1>14, <1>15, <1>16 DEF SlackNext

-----------------------------------------------------------------------------
(*                 the rows, the files and what was told                   *)

\* A row's place in its day's file is its own.
LinesApart ==
  \A a, b \in TimeStamps : (HasRow(a) /\ HasRow(b) /\ rows[a].day = rows[b].day /\ rows[a].line = rows[b].line) => a = b

\* What was told is told once, of a row that is marked, at its place; and its file has it there.
InFile(t) == t.line + 1 \in DOMAIN days[t.day] /\ days[t.day][t.line + 1].ts = t.ts
ToldOfRows ==
  /\ \A i, j \in DOMAIN toldOf : toldOf[i].ts = toldOf[j].ts => i = j
  /\ \A i \in DOMAIN toldOf :
       /\ toldOf[i].ts \in marked /\ HasRow(toldOf[i].ts)
       /\ toldOf[i].day = rows[toldOf[i].ts].day /\ toldOf[i].line = LineNow(toldOf[i].ts)
       /\ toldOf[i].day \notin spoiled => InFile(toldOf[i])

FilesSay ==
  \A day \in Range(DaySaid) \ spoiled :
    ~(handling.at = "write" /\ rows[First.ts].day = day) => days[day] = DayFile(rows, day)

\* A mention whose row was written is told of, or its file is the next to be written.
MentionsGo ==
  \A ts \in DOMAIN said :
    HasRow(ts) /\ ForHer(ts) /\ ts \notin hushed /\ ts \notin marked =>
      /\ handling.at = "write" /\ First.ts = ts
      /\ ~First.quiet /\ handling.raises /\ (handling.new \/ handling.live)

GoodRecord == LinesApart /\ ToldOfRows /\ FilesSay /\ MentionsGo

\* Of the rows one is written, and it keeps its place or takes one after the others of its day.
RowsGo(at) ==
  /\ \A t \in TimeStamps \ {at} : rows'[t] = rows[t]
  /\ HasRow(at)'
  /\ HasRow(at) => rows'[at].day = rows[at].day /\ rows'[at].line = rows[at].line
  /\ ~HasRow(at) => \A t \in RowsOf(rows, rows'[at].day) : rows[t].line < rows'[at].line

LEMMA LinesOfDay ==
  ASSUME SlackTypes, LinesApart, NEW day
  PROVE  LET lines == LinesOf(rows, day) IN
         /\ Len(lines) \in Nat /\ DOMAIN lines = 1..Len(lines)
         /\ \A i \in DOMAIN lines : lines[i] \in RowsOf(rows, day)
         /\ \A ts \in RowsOf(rows, day) :
              LineNow(ts) \in Nat /\ LineNow(ts) < Len(lines) /\ LineNow(ts) + 1 \in DOMAIN lines /\ lines[LineNow(ts) + 1] = ts
<1> DEFINE R == RowsOf(rows, day)
           rank == [ts \in R |-> rows[ts].line]
           lines == InOrder(R, rank)
           n == Cardinality(R)
           Below(x) == Cardinality({y \in R : rank[y] < rank[x]})
<1>1. ASSUME NEW x \in R PROVE x \in TimeStamps /\ HasRow(x) /\ rows[x].day = day /\ rank[x] = rows[x].line /\ rank[x] \in Nat
  <2>1. x \in TimeStamps /\ HasRow(x) /\ rows[x].day = day
    BY DEF RowsOf, HasRow
  <2>2. rows[x] \in SlackRows
    BY <2>1, RowFacts
  <2> QED BY <2>1, <2>2 DEF SlackRows
<1>2. IsFiniteSet(R)
  <2>1. IsFiniteSet(TimeStamps)
    <3>1. TimeStamps = 1..Len(DaySaid) /\ Len(DaySaid) \in Nat
      BY SaidFacts
    <3> QED BY <3>1, FS_Interval
  <2> QED BY <2>1, FS_Subset DEF RowsOf
<1>3. \A x, y \in R : rank[x] = rank[y] => x = y
  BY <1>1 DEF LinesApart
<1>4. LinesOf(rows, day) = lines
  BY DEF LinesOf
<1>5. ASSUME NEW ts \in R PROVE LineNow(ts) = Below(ts)
  <2>1. rows[ts].day = day
    BY <1>1
  <2>2. {t \in R : rows[t].line < rows[ts].line} = {y \in R : rank[y] < rank[ts]}
    BY <1>1
  <2> QED BY <2>1, <2>2 DEF LineNow
<1> HIDE DEF R, rank
<1>6. \A x \in R : rank[x] \in Int
  BY <1>1
<1>7. /\ n \in Nat /\ lines \in Seq(R) /\ Len(lines) = n /\ DOMAIN lines = 1..n
      /\ \A x \in R : Below(x) \in 0..(n - 1) /\ lines[Below(x) + 1] = x
      /\ \A i \in 1..n : lines[i] \in R
      /\ \A i, j \in 1..n : i < j => rank[lines[i]] < rank[lines[j]]
  BY <1>2, <1>3, <1>6, OrderedBySteps
<1> HIDE DEF n, lines, Below
<1>8. ASSUME NEW ts \in R
      PROVE  LineNow(ts) \in Nat /\ LineNow(ts) < Len(lines) /\ LineNow(ts) + 1 \in DOMAIN lines /\ lines[LineNow(ts) + 1] = ts
  <2>1. Below(ts) \in 0..(n - 1) /\ lines[Below(ts) + 1] = ts /\ LineNow(ts) = Below(ts)
    BY <1>5, <1>7
  <2>2. Below(ts) \in Nat /\ Below(ts) < n /\ Below(ts) + 1 \in 1..n
    BY <1>7, <2>1
  <2> QED BY <1>7, <2>1, <2>2
<1>9. \A i \in DOMAIN lines : lines[i] \in R
  BY <1>7
<1> QED BY <1>4, <1>7, <1>8, <1>9 DEF R

\* The places of the rows stay.
LEMMA PlacesStay ==
  ASSUME SlackTypes, SlackTypes', LinesApart, NEW at \in TimeStamps, RowsGo(at)
  PROVE  /\ LinesApart'
         /\ \A t \in TimeStamps : HasRow(t) => HasRow(t)' /\ rows'[t].day = rows[t].day /\ rows'[t].line = rows[t].line
                                             /\ LineNow(t)' = LineNow(t)
<1>1. ASSUME NEW t \in TimeStamps, HasRow(t) PROVE HasRow(t)' /\ rows'[t].day = rows[t].day /\ rows'[t].line = rows[t].line
  BY <1>1 DEF RowsGo, HasRow
<1>2. ASSUME NEW t \in TimeStamps, HasRow(t)' PROVE rows'[t].line \in Nat
  <2>1. rows'[t] \in SlackRows
    <3>1. rows'[t] \in SlackRows \cup {NoRow} /\ rows'[t] # NoRow
      BY <1>2 DEF SlackTypes, HasRow
    <3> QED BY <3>1
  <2> QED BY <2>1 DEF SlackRows
<1>3. ASSUME NEW t \in TimeStamps, HasRow(t), rows'[at].day = rows[t].day, ~HasRow(at) PROVE rows[t].line < rows'[at].line
  <2>1. t \in RowsOf(rows, rows'[at].day)
    BY <1>3 DEF RowsOf, HasRow
  <2> QED BY <1>3, <2>1 DEF RowsGo
<1>4. \A t \in TimeStamps : t # at => (HasRow(t)' <=> HasRow(t))
  BY DEF RowsGo, HasRow
<1>5. LinesApart'
  <2> SUFFICES ASSUME NEW a \in TimeStamps, NEW b \in TimeStamps, HasRow(a)', HasRow(b)', rows'[a].day = rows'[b].day, rows'[a].line = rows'[b].line
               PROVE  a = b
    BY DEF LinesApart
  <2>0. rows'[a].line \in Nat /\ rows'[b].line \in Nat
    BY <1>2
  <2>1. CASE HasRow(a) /\ HasRow(b)
    BY <1>1, <2>1 DEF LinesApart
  <2>2. CASE ~HasRow(a) /\ HasRow(b)
    <3>1. a = at /\ rows'[b].day = rows[b].day /\ rows'[b].line = rows[b].line
      BY <1>1, <1>4, <2>2
    <3>2. rows[b].line < rows'[a].line
      BY <1>3, <2>2, <3>1
    <3> QED BY <2>0, <3>1, <3>2
  <2>3. CASE HasRow(a) /\ ~HasRow(b)
    <3>1. b = at /\ rows'[a].day = rows[a].day /\ rows'[a].line = rows[a].line
      BY <1>1, <1>4, <2>3
    <3>2. rows[a].line < rows'[b].line
      BY <1>3, <2>3, <3>1
    <3> QED BY <2>0, <3>1, <3>2
  <2>4. CASE ~HasRow(a) /\ ~HasRow(b)
    BY <1>4, <2>4
  <2> QED BY <2>1, <2>2, <2>3, <2>4
<1>6. ASSUME NEW t \in TimeStamps, HasRow(t) PROVE LineNow(t)' = LineNow(t)
  <2> DEFINE Before == {u \in RowsOf(rows, rows[t].day) : rows[u].line < rows[t].line}
             After  == {u \in RowsOf(rows', rows'[t].day) : rows'[u].line < rows'[t].line}
  <2>1. rows'[t].day = rows[t].day /\ rows'[t].line = rows[t].line /\ HasRow(t)' /\ rows'[t].line \in Nat
    BY <1>1, <1>2, <1>6
  <2>2. ASSUME NEW u \in Before PROVE u \in After
    <3>1. u \in TimeStamps /\ HasRow(u) /\ rows[u].day = rows[t].day /\ rows[u].line < rows[t].line
      BY DEF RowsOf, HasRow
    <3>2. HasRow(u)' /\ rows'[u].day = rows[u].day /\ rows'[u].line = rows[u].line
      BY <1>1, <3>1
    <3> QED BY <2>1, <3>1, <3>2 DEF RowsOf, HasRow
  <2>3. ASSUME NEW u \in After PROVE u \in Before
    <3>1. u \in TimeStamps /\ HasRow(u)' /\ rows'[u].day = rows[t].day /\ rows'[u].line < rows[t].line
      BY <2>1 DEF RowsOf, HasRow
    <3>2. HasRow(u)
      <4> SUFFICES ASSUME ~HasRow(u) PROVE FALSE
        OBVIOUS
      <4>1. u = at
        BY <1>4, <3>1
      <4>2. rows[t].line < rows'[u].line
        BY <1>3, <1>6, <3>1, <4>1
      <4>3. rows'[u].line \in Nat /\ rows[t].line \in Nat
        BY <1>2, <2>1, <3>1
      <4> QED BY <3>1, <4>2, <4>3
    <3>3. rows'[u].day = rows[u].day /\ rows'[u].line = rows[u].line
      BY <1>1, <3>1, <3>2
    <3> QED BY <3>1, <3>2, <3>3 DEF RowsOf, HasRow
  <2>4. Before = After
    BY <2>2, <2>3
  <2> QED BY <2>4 DEF LineNow
<1> QED BY <1>1, <1>5, <1>6

\* The file of a day says the same where none of its rows changes.
LEMMA OtherDays ==
  ASSUME SlackTypes, LinesApart, NEW at \in TimeStamps, RowsGo(at), NEW day, day # rows'[at].day
  PROVE  DayFile(rows', day) = DayFile(rows, day)
<1>1. RowsOf(rows', day) = RowsOf(rows, day)
  <2>1. ASSUME NEW t \in TimeStamps PROVE (rows'[t] # NoRow /\ rows'[t].day = day) <=> (rows[t] # NoRow /\ rows[t].day = day)
    <3>1. CASE t = at
      BY <3>1 DEF RowsGo, HasRow
    <3>2. CASE t # at
      BY <3>2 DEF RowsGo
    <3> QED BY <3>1, <3>2
  <2> QED BY <2>1 DEF RowsOf
<1>2. \A t \in RowsOf(rows, day) : rows'[t] = rows[t]
  <2> SUFFICES ASSUME NEW t \in RowsOf(rows, day) PROVE rows'[t] = rows[t]
    OBVIOUS
  <2>1. t \in TimeStamps /\ HasRow(t) /\ rows[t].day = day
    BY DEF RowsOf, HasRow
  <2>2. t # at
    BY <2>1 DEF RowsGo
  <2> QED BY <2>1, <2>2 DEF RowsGo
<1>3. LinesOf(rows', day) = LinesOf(rows, day)
  <2>1. [t \in RowsOf(rows', day) |-> rows'[t].line] = [t \in RowsOf(rows, day) |-> rows[t].line]
    BY <1>1, <1>2
  <2> QED BY <1>1, <2>1 DEF LinesOf
<1> DEFINE lines == LinesOf(rows, day)
<1>4. \A i \in DOMAIN lines : lines[i] \in RowsOf(rows, day)
  BY LinesOfDay
<1>5. \A i \in DOMAIN lines : rows'[lines[i]] = rows[lines[i]]
  BY <1>2, <1>4
<1>6. DayFile(rows', day) = [i \in DOMAIN lines |-> Entry(rows', lines, lines[i])]
  BY <1>3 DEF DayFile
<1>7. DayFile(rows, day) = [i \in DOMAIN lines |-> Entry(rows, lines, lines[i])]
  BY DEF DayFile
<1> HIDE DEF lines
<1>8. \A i \in DOMAIN lines : Entry(rows', lines, lines[i]) = Entry(rows, lines, lines[i])
  BY <1>5 DEF Entry
<1> QED BY <1>6, <1>7, <1>8

\* A row's line in the file of its day is its own.
LEMMA LineInFile ==
  ASSUME SlackTypes, LinesApart, NEW ts \in TimeStamps, HasRow(ts)
  PROVE  LET file == DayFile(rows, rows[ts].day) IN
         /\ LineNow(ts) + 1 \in DOMAIN file /\ file[LineNow(ts) + 1].ts = ts
         /\ Resolved(rows[ts].day, LineNow(ts)) = ts
<1> DEFINE day == rows[ts].day
           lines == LinesOf(rows, day)
           n == LineNow(ts)
<1>1. ts \in RowsOf(rows, day)
  BY DEF RowsOf, HasRow
<1>2. n \in Nat /\ n < Len(lines) /\ n + 1 \in DOMAIN lines /\ lines[n + 1] = ts
  BY <1>1, LinesOfDay
<1>3. DayFile(rows, day) = [i \in DOMAIN lines |-> Entry(rows, lines, lines[i])]
  BY DEF DayFile
<1>4. Entry(rows, lines, ts).ts = ts
  BY DEF Entry
<1>5. Resolved(day, n) = ts
  BY <1>2 DEF Resolved
<1> HIDE DEF lines, n
<1> QED BY <1>2, <1>3, <1>4, <1>5 DEF n

LEMMA ToldFacts ==
  ASSUME SlackTypes
  PROVE  toldOf \in Seq(ToldOnes) /\ \A i \in DOMAIN toldOf : toldOf[i].ts \in TimeStamps /\ toldOf[i].day \in Range(DaySaid)
<1>1. toldOf \in Seq(ToldOnes)
  BY DEF SlackTypes
<1>2. \A i \in DOMAIN toldOf : toldOf[i] \in ToldOnes
  BY <1>1
<1>3. \A t \in ToldOnes : t.ts \in TimeStamps /\ t.day \in Range(DaySaid)
  BY DEF ToldOnes
<1> QED BY <1>1, <1>2, <1>3

LEMMA SaidIn == SlackTypes => DOMAIN said \subseteq TimeStamps
  BY SaidFacts

LEMMA ToldStays ==
  ASSUME SlackTypes, SlackTypes', LinesApart, ToldOfRows, UNCHANGED <<toldOf, days, marked>>, spoiled \subseteq spoiled',
         rows' = rows \/ \E at \in TimeStamps : RowsGo(at)
  PROVE  ToldOfRows'
<1>1. \A i \in DOMAIN toldOf : toldOf[i].ts \in TimeStamps
  BY ToldFacts
<1>2. ASSUME NEW t \in TimeStamps, HasRow(t) PROVE HasRow(t)' /\ rows'[t].day = rows[t].day /\ LineNow(t)' = LineNow(t)
  <2>1. CASE rows' = rows
    BY <1>2, <2>1 DEF HasRow, LineNow, RowsOf
  <2>2. ASSUME NEW at \in TimeStamps, RowsGo(at) PROVE HasRow(t)' /\ rows'[t].day = rows[t].day /\ LineNow(t)' = LineNow(t)
    BY <1>2, <2>2, PlacesStay
  <2> QED BY <2>1, <2>2
<1>3. ASSUME NEW i \in DOMAIN toldOf'
      PROVE  /\ toldOf'[i].ts \in marked' /\ HasRow(toldOf[i].ts)'
             /\ toldOf'[i].day = rows'[toldOf'[i].ts].day /\ toldOf'[i].line = LineNow(toldOf[i].ts)'
             /\ toldOf'[i].day \notin spoiled' => InFile(toldOf[i])'
  <2>1. PICK t \in TimeStamps : t = toldOf[i].ts
    BY <1>1
  <2>2. t \in marked /\ HasRow(t) /\ toldOf[i].day = rows[t].day /\ toldOf[i].line = LineNow(t)
        /\ (toldOf[i].day \notin spoiled => InFile(toldOf[i]))
    BY <2>1 DEF ToldOfRows
  <2>3. HasRow(t)' /\ rows'[t].day = rows[t].day /\ LineNow(t)' = LineNow(t)
    BY <1>2, <2>2
  <2>4. InFile(toldOf[i]) => InFile(toldOf[i])'
    BY DEF InFile
  <2>5. HasRow(toldOf[i].ts)' /\ LineNow(toldOf[i].ts)' = LineNow(toldOf[i].ts)
    BY <2>1, <2>3 DEF HasRow, LineNow
  <2> QED BY <2>1, <2>2, <2>3, <2>4, <2>5
<1>4. \A i, j \in DOMAIN toldOf' : toldOf'[i].ts = toldOf'[j].ts => i = j
  BY DEF ToldOfRows
<1> QED BY <1>3, <1>4 DEF ToldOfRows

LEMMA RecordAside ==
  ASSUME SlackShape, SlackShape', GoodRecord, UNCHANGED <<talk, rows, days, marked, toldOf, spoiled, hushed>>,
         UNCHANGED handling \/ (handling.at # "write" /\ handling'.at # "write")
  PROVE  GoodRecord'
<1> USE DEF GoodRecord, SlackShape
<1>1. LinesApart'
  BY DEF LinesApart, HasRow
<1>2. ToldOfRows'
  BY ToldStays
<1>3. FilesSay'
  BY DEF FilesSay, First
<1>4. MentionsGo'
  <2> SUFFICES ASSUME NEW ts \in DOMAIN said', HasRow(ts)', ForHer(ts)', ts \notin hushed, ts \notin marked
               PROVE  /\ handling'.at = "write" /\ First'.ts = ts
                      /\ ~First'.quiet /\ handling'.raises /\ (handling'.new \/ handling'.live)
    BY DEF MentionsGo
  <2>1. ts \in TimeStamps
    <3>1. (SlackTypes => DOMAIN said \subseteq TimeStamps)'
      BY SaidIn, PTL
    <3> QED BY <3>1
  <2>2. HasRow(ts) /\ ForHer(ts)
    BY DEF HasRow, ForHer, Saying
  <2>3. ts \in DOMAIN said
    BY <2>1, <2>2 DEF OfWhatWasSaid
  <2>4. /\ handling.at = "write" /\ First.ts = ts
        /\ ~First.quiet /\ handling.raises /\ (handling.new \/ handling.live)
    BY <2>2, <2>3 DEF MentionsGo
  <2> QED BY <2>4 DEF First
<1> QED BY <1>1, <1>2, <1>3, <1>4

LEMMA RecordDies == ASSUME SlackShape, SlackShape', GoodRecord, SlackDies PROVE GoodRecord'
<1> USE DEF GoodRecord, SlackShape
<1>1. /\ UNCHANGED <<talk, said, rows, days, marked, toldOf>> /\ handling' = AtRest
      /\ hushed' = IF handling.at = "write" THEN hushed \cup {handling.items[1].ts} ELSE hushed
      /\ spoiled' = IF handling.at = "write" THEN spoiled \cup {rows[handling.items[1].ts].day} ELSE spoiled
  BY DEF SlackDies, theRecord
<1>2. LinesApart'
  BY <1>1 DEF LinesApart, HasRow
<1>3. ToldOfRows'
  BY <1>1, ToldStays
<1>4. FilesSay'
  BY <1>1 DEF FilesSay, First
<1>5. MentionsGo'
  <2> SUFFICES ASSUME NEW ts \in DOMAIN said', HasRow(ts)', ForHer(ts)', ts \notin hushed', ts \notin marked' PROVE FALSE
    BY DEF MentionsGo
  <2>1. HasRow(ts) /\ ForHer(ts) /\ ts \in DOMAIN said /\ ts \notin hushed /\ ts \notin marked
    BY <1>1 DEF HasRow, ForHer, Saying
  <2>2. handling.at = "write" /\ First.ts = ts
    BY <2>1 DEF MentionsGo
  <2> QED BY <1>1, <2>2 DEF First
<1> QED BY <1>2, <1>3, <1>4, <1>5

\* A row that is written, before its file is.
LEMMA RecordRowGoes ==
  ASSUME SlackShape, SlackShape', GoodRecord, NEW at \in TimeStamps, RowsGo(at), UNCHANGED <<talk, said, days, marked, toldOf, spoiled>>,
         handling.at # "write", handling'.at = "write", First'.ts = at, hushed \subseteq hushed',
         ~HasRow(at) /\ ForHer(at) /\ at \notin hushed' => ~First'.quiet /\ handling'.raises /\ (handling'.new \/ handling'.live)
  PROVE  GoodRecord'
<1> USE DEF GoodRecord, SlackShape
<1>1. LinesApart'
  BY PlacesStay
<1>2. ToldOfRows'
  BY ToldStays
<1>3. FilesSay'
  <2> SUFFICES ASSUME NEW day \in Range(DaySaid) \ spoiled', rows'[at].day # day PROVE days'[day] = DayFile(rows', day)
    BY DEF FilesSay
  <2>1. days[day] = DayFile(rows, day)
    BY DEF FilesSay
  <2>2. DayFile(rows', day) = DayFile(rows, day)
    BY OtherDays
  <2> QED BY <2>1, <2>2
<1>4. MentionsGo'
  <2> SUFFICES ASSUME NEW ts \in DOMAIN said', HasRow(ts)', ForHer(ts)', ts \notin hushed', ts \notin marked'
               PROVE  /\ First'.ts = ts /\ ~First'.quiet /\ handling'.raises /\ (handling'.new \/ handling'.live)
    BY DEF MentionsGo
  <2>1. ForHer(ts) /\ ts \in DOMAIN said /\ ts \in TimeStamps /\ ts \notin hushed /\ ts \notin marked
    BY SaidFacts DEF ForHer, Saying
  <2>2. ~HasRow(ts)
    BY <2>1 DEF MentionsGo
  <2>3. ts = at
    BY <2>1, <2>2 DEF RowsGo, HasRow
  <2> QED BY <2>1, <2>2, <2>3
<1> QED BY <1>1, <1>2, <1>3, <1>4

LEMMA RecordChanges ==
  ASSUME SlackShape, SlackShape', GoodRecord, NEW type, TakesEvent(type), NEW ts \in DOMAIN said, NEW changed, NEW row,
         Changes(ts, changed, row), HasRow(ts) => row \in SlackRows /\ row.line = rows[ts].line /\ row.day = rows[ts].day
  PROVE  GoodRecord'
<1>1. handling = AtRest /\ UNCHANGED <<talk, said, days, marked, toldOf, spoiled, hushed>>
  BY DEF TakesEvent, Changes, channel, notes
<1>2. ts \in TimeStamps
  BY SaidFacts DEF SlackShape
<1>3. handling.at # "write"
  BY <1>1 DEF AtRest
<1>4. CASE HasRow(ts) /\ changed
  <2>1. rows' = [rows EXCEPT ![ts] = row] /\ row \in SlackRows /\ row.line = rows[ts].line /\ row.day = rows[ts].day
        /\ handling' = [AtRest EXCEPT !.at = "write", !.items = <<Quietly(Item(ts, 0, 0, NotSaid))>>]
    BY <1>4 DEF Changes
  <2>2. rows'[ts] = row /\ HasRow(ts)' /\ \A t \in TimeStamps \ {ts} : rows'[t] = rows[t]
    BY <1>2, <2>1, RowWritten DEF SlackShape
  <2>3. RowsGo(ts)
    BY <1>4, <2>1, <2>2 DEF RowsGo
  <2>4. handling'.at = "write" /\ First'.ts = ts
    BY <2>1 DEF AtRest, First, Quietly, Item
  <2> QED BY <1>1, <1>2, <1>3, <1>4, <2>3, <2>4, RecordRowGoes
<1>5. CASE ~(HasRow(ts) /\ changed)
  <2>1. rows' = rows /\ handling' = handling
    BY <1>5 DEF Changes
  <2> QED BY <1>1, <2>1, RecordAside
<1> QED BY <1>4, <1>5

\* A row recorded is where it was, or after the others.
LEMMA RecordedGoes ==
  ASSUME SlackShape, RecordsRow
  PROVE  \E at \in TimeStamps :
           /\ at = First.ts /\ RowsGo(at) /\ rows'[at] = RowWith(First) /\ RowWith(First) \in SlackRows
           /\ HasRow(at) => rows'[at].thread = rows[at].thread
           /\ ~HasRow(at) => rows'[at].thread = First.thread
<1> DEFINE ts == First.ts
           row == RowWith(First)
<1>1. handling.items # <<>> /\ rows' = [rows EXCEPT ![ts] = row]
  BY RowTakes
<1>2. First \in Items /\ ts \in DOMAIN said /\ ts \in TimeStamps
  BY <1>1, FirstFits
<1>3. /\ row \in SlackRows
      /\ HasRow(ts) => row.line = rows[ts].line /\ row.day = rows[ts].day /\ row.thread = rows[ts].thread
      /\ ~HasRow(ts) => row.thread = First.thread /\ \A t \in RowsOf(rows, row.day) : rows[t].line < row.line
  BY <1>2, RecordedRow DEF SlackShape
<1> HIDE DEF row
<1>4. PICK at \in TimeStamps : at = ts
  BY <1>2
<1>5. rows'[at] = row /\ HasRow(at)' /\ \A t \in TimeStamps \ {at} : rows'[t] = rows[t]
  BY <1>1, <1>3, <1>4, RowWritten DEF SlackShape
<1>6. RowsGo(at)
  BY <1>3, <1>4, <1>5 DEF RowsGo
<1> QED BY <1>3, <1>4, <1>5, <1>6 DEF row

LEMMA RecordRowKeeps == ASSUME SlackShape, SlackShape', GoodRecord, RecordsRow PROVE GoodRecord'
<1>1. PICK at \in TimeStamps : at = First.ts /\ RowsGo(at)
  BY RecordedGoes
<1>2. RowsGo(at)
  BY <1>1
<1>3. /\ handling.at = "next" /\ handling'.at = "write" /\ First' = First /\ handling'.live = handling.live
      /\ handling'.raises = handling.raises /\ handling'.new = (~HasRow(First.ts))
      /\ UNCHANGED <<talk, said, days, marked, toldOf, spoiled>>
  BY RowTakes
<1>4. hushed' = IF ~HasRow(First.ts) /\ (First.quiet \/ ~handling.raises) THEN hushed \cup {First.ts} ELSE hushed
  BY DEF RecordsRow
<1>5. ~HasRow(at) /\ ForHer(at) /\ at \notin hushed' => ~First'.quiet /\ handling'.raises /\ (handling'.new \/ handling'.live)
  <2> SUFFICES ASSUME ~HasRow(at), at \notin hushed' PROVE ~First'.quiet /\ handling'.raises /\ (handling'.new \/ handling'.live)
    OBVIOUS
  <2>1. ~(First.quiet \/ ~handling.raises)
    BY <1>1, <1>4
  <2> QED BY <1>1, <1>3, <2>1
<1>6. hushed \subseteq hushed' /\ handling.at # "write" /\ First'.ts = at
  BY <1>1, <1>3, <1>4
<1> QED BY <1>2, <1>3, <1>5, <1>6, RecordRowGoes

LEMMA GoesOnNext == ASSUME SlackTypes, GoesOn PROVE handling'.at \in {"thread", "next"}
<1>1. handling' = [handling EXCEPT !.at = "thread", !.items = handling.items] \/ handling' = [handling EXCEPT !.at = "next", !.items = Rest]
  BY DEF GoesOn, At
<1> QED BY <1>1 DEF SlackTypes

LEMMA RecordFileKeeps == ASSUME SlackShape, SlackShape', GoodRecord, RecordsFile PROVE GoodRecord'
<1> USE DEF GoodRecord, SlackShape
<1> DEFINE day == rows[First.ts].day
           told == [ts |-> First.ts, day |-> day, line |-> LineNow(First.ts)]
<1>1. /\ handling.at = "write" /\ handling.items # <<>> /\ HasRow(First.ts) /\ GoesOn /\ day \in Range(DaySaid)
      /\ days' = [days EXCEPT ![day] = DayFile(rows, day)] /\ spoiled' = spoiled \ {day}
      /\ \/ Raises(First) /\ First.ts \notin marked /\ marked' = marked \cup {First.ts} /\ toldOf' = Append(toldOf, told)
         \/ ~Raises(First) /\ UNCHANGED <<marked, toldOf>>
      /\ UNCHANGED <<talk, said, rows, hushed>>
  BY FileTakes
<1>2. First.ts \in TimeStamps /\ First.ts \in DOMAIN said
  BY <1>1, FirstFits
<1>3. handling'.at # "write"
  BY <1>1, GoesOnNext
<1>4. \A d \in Range(DaySaid) : days'[d] = IF d = day THEN DayFile(rows, day) ELSE days[d]
  BY <1>1 DEF SlackTypes
<1>5. LinesApart'
  BY <1>1 DEF LinesApart, HasRow
<1>6. FilesSay'
  <2> SUFFICES ASSUME NEW d \in Range(DaySaid) \ spoiled' PROVE days'[d] = DayFile(rows, d)
    BY <1>1 DEF FilesSay
  <2>1. CASE d = day
    BY <1>4, <2>1
  <2>2. CASE d # day
    BY <1>1, <1>4, <2>2 DEF FilesSay
  <2> QED BY <2>1, <2>2
<1>7. /\ toldOf \in Seq(ToldOnes)
      /\ \A i \in DOMAIN toldOf : toldOf[i].ts \in TimeStamps /\ toldOf[i].day \in Range(DaySaid)
  BY ToldFacts
\* Every place told of a row is in its file.
<1>8. ASSUME NEW ts \in TimeStamps, HasRow(ts), NEW t, t.ts = ts, t.day = rows[ts].day, t.line = LineNow(ts),
             rows[ts].day \notin spoiled => InFile(t), rows[ts].day \notin spoiled'
      PROVE  t.line + 1 \in DOMAIN days'[t.day] /\ days'[t.day][t.line + 1].ts = ts
  <2>1. rows[ts].day \in Range(DaySaid)
    <3>1. rows[ts] \in SlackRows
      BY <1>8, RowFacts
    <3> QED BY <3>1 DEF SlackRows
  <2>2. CASE rows[ts].day = day
    <3>1. LineNow(ts) + 1 \in DOMAIN DayFile(rows, rows[ts].day) /\ DayFile(rows, rows[ts].day)[LineNow(ts) + 1].ts = ts
      BY <1>8, LineInFile
    <3>2. days'[t.day] = DayFile(rows, rows[ts].day)
      BY <1>4, <1>8, <2>1, <2>2
    <3> QED BY <1>8, <3>1, <3>2
  <2>3. CASE rows[ts].day # day
    <3>1. days'[t.day] = days[t.day]
      BY <1>4, <1>8, <2>1, <2>3
    <3>2. rows[ts].day \notin spoiled
      BY <1>1, <1>8, <2>3
    <3> QED BY <1>8, <3>1, <3>2 DEF InFile
  <2> QED BY <2>2, <2>3
<1>9. ToldOfRows'
  <2>1. \A ts : LineNow(ts)' = LineNow(ts)
    BY <1>1 DEF LineNow
  <2>2. ASSUME NEW i \in DOMAIN toldOf
        PROVE  /\ toldOf[i].ts \in marked' /\ HasRow(toldOf[i].ts)
               /\ toldOf[i].day = rows[toldOf[i].ts].day /\ toldOf[i].line = LineNow(toldOf[i].ts)
               /\ toldOf[i].day \notin spoiled' =>
                    toldOf[i].line + 1 \in DOMAIN days'[toldOf[i].day] /\ days'[toldOf[i].day][toldOf[i].line + 1].ts = toldOf[i].ts
    <3>1. /\ toldOf[i].ts \in marked /\ HasRow(toldOf[i].ts)
          /\ toldOf[i].day = rows[toldOf[i].ts].day /\ toldOf[i].line = LineNow(toldOf[i].ts)
          /\ toldOf[i].day \notin spoiled => InFile(toldOf[i])
      BY DEF ToldOfRows
    <3>2. toldOf[i].ts \in marked'
      BY <1>1, <3>1
    <3>3. toldOf[i].day \notin spoiled' =>
             toldOf[i].line + 1 \in DOMAIN days'[toldOf[i].day] /\ days'[toldOf[i].day][toldOf[i].line + 1].ts = toldOf[i].ts
      BY <1>7, <1>8, <3>1
    <3> QED BY <3>1, <3>2, <3>3
  <2>3. CASE ~Raises(First)
    <3>1. toldOf' = toldOf /\ marked' = marked
      BY <1>1, <2>3
    <3> QED BY <1>1, <2>1, <2>2, <3>1 DEF ToldOfRows, InFile, HasRow
  <2>4. CASE Raises(First)
    <3> DEFINE n == Len(toldOf)
    <3>1. toldOf' = Append(toldOf, told) /\ marked' = marked \cup {First.ts} /\ First.ts \notin marked
      BY <1>1, <2>4
    <3>2. told.ts = First.ts /\ told.day = day /\ told.line = LineNow(First.ts)
      OBVIOUS
    <3>3. told.day \notin spoiled' => told.line + 1 \in DOMAIN days'[told.day] /\ days'[told.day][told.line + 1].ts = told.ts
      <4>1. day \in Range(DaySaid) /\ days'[day] = DayFile(rows, day)
        BY <1>1, <1>4
      <4>2. LineNow(First.ts) + 1 \in DOMAIN DayFile(rows, day) /\ DayFile(rows, day)[LineNow(First.ts) + 1].ts = First.ts
        BY <1>1, <1>2, LineInFile
      <4> QED BY <3>2, <4>1, <4>2
    <3>4. HasRow(told.ts) /\ told.ts \in marked' /\ told.day = rows[told.ts].day /\ told.line = LineNow(told.ts)
      BY <1>1, <3>1, <3>2
    <3> HIDE DEF told
    <3>5. n \in Nat /\ DOMAIN toldOf = 1..n /\ DOMAIN toldOf' = 1..(n + 1)
          /\ toldOf'[n + 1] = told /\ \A i \in 1..n : toldOf'[i] = toldOf[i]
      BY <1>7, <3>1
    <3> HIDE DEF n
    <3>6. ASSUME NEW i \in DOMAIN toldOf'
          PROVE  /\ toldOf'[i].ts \in marked' /\ HasRow(toldOf'[i].ts)
                 /\ toldOf'[i].day = rows[toldOf'[i].ts].day /\ toldOf'[i].line = LineNow(toldOf'[i].ts)
                 /\ toldOf'[i].day \notin spoiled' =>
                      toldOf'[i].line + 1 \in DOMAIN days'[toldOf'[i].day] /\ days'[toldOf'[i].day][toldOf'[i].line + 1].ts = toldOf'[i].ts
      <4>1. CASE i = n + 1
        BY <3>3, <3>4, <3>5, <4>1
      <4>2. CASE i \in 1..n
        BY <2>2, <3>5, <4>2
      <4> QED BY <3>5, <4>1, <4>2
    <3>7. \A i \in 1..n : toldOf[i].ts \in marked
      BY <3>5 DEF ToldOfRows
    <3>8. ASSUME NEW i \in DOMAIN toldOf', NEW j \in DOMAIN toldOf', toldOf'[i].ts = toldOf'[j].ts PROVE i = j
      <4>1. CASE i \in 1..n /\ j \in 1..n
        BY <3>5, <3>8, <4>1 DEF ToldOfRows
      <4>2. CASE i \in 1..n /\ j = n + 1
        BY <3>1, <3>2, <3>5, <3>7, <3>8, <4>2 DEF told
      <4>3. CASE j \in 1..n /\ i = n + 1
        BY <3>1, <3>2, <3>5, <3>7, <3>8, <4>3 DEF told
      <4>4. CASE i = n + 1 /\ j = n + 1
        BY <4>4
      <4> QED BY <3>5, <4>1, <4>2, <4>3, <4>4
    <3> QED BY <1>1, <2>1, <3>6, <3>8 DEF ToldOfRows, InFile, HasRow
  <2> QED BY <2>3, <2>4
<1>10. MentionsGo'
  <2> SUFFICES ASSUME NEW ts \in DOMAIN said', HasRow(ts)', ForHer(ts)', ts \notin hushed', ts \notin marked' PROVE FALSE
    BY DEF MentionsGo
  <2>1. HasRow(ts) /\ ForHer(ts) /\ ts \in DOMAIN said /\ ts \notin hushed /\ ts \notin marked
    BY <1>1 DEF HasRow, ForHer, Saying
  <2>2. First.ts = ts /\ ~First.quiet /\ handling.raises /\ (handling.new \/ handling.live)
    BY <2>1 DEF MentionsGo
  <2>3. Raises(First)
    BY <2>1, <2>2 DEF Raises
  <2> QED BY <1>1, <2>2, <2>3
<1> QED BY <1>5, <1>6, <1>9, <1>10

LEMMA RecordFileFails == ASSUME SlackShape, SlackShape', GoodRecord, FileFails PROVE GoodRecord'
<1> USE DEF GoodRecord, SlackShape
<1>1. /\ handling.at = "write" /\ UNCHANGED <<talk, said, rows, days, marked, toldOf>> /\ GoesOn
      /\ hushed' = hushed \cup {First.ts}
      /\ spoiled' = spoiled \cup {rows[First.ts].day}
  BY DEF FileFails, theRecord, channel
<1>2. handling'.at # "write"
  BY <1>1, GoesOnNext
<1>3. LinesApart'
  BY <1>1 DEF LinesApart, HasRow
<1>4. ToldOfRows'
  BY <1>1, ToldStays
<1>5. FilesSay'
  BY <1>1, <1>2 DEF FilesSay
<1>6. MentionsGo'
  <2> SUFFICES ASSUME NEW ts \in DOMAIN said', HasRow(ts)', ForHer(ts)', ts \notin hushed', ts \notin marked' PROVE FALSE
    BY DEF MentionsGo
  <2>1. HasRow(ts) /\ ForHer(ts) /\ ts \in DOMAIN said /\ ts \notin hushed /\ ts \notin marked
    BY <1>1 DEF HasRow, ForHer, Saying
  <2>2. First.ts = ts
    BY <2>1 DEF MentionsGo
  <2> QED BY <1>1, <2>2
<1> QED BY <1>3, <1>4, <1>5, <1>6

LEMMA NextRecord == ASSUME SlackShape, SlackShape', GoodRecord, SlackNext PROVE GoodRecord'
<1>0. SlackTypes
  BY DEF SlackShape
<1>1. CASE SlackSays \/ NatsumiPosts \/ RecordOwn
  <2>1. UNCHANGED <<talk, rows, days, marked, toldOf, spoiled, hushed, handling>>
    BY <1>1 DEF SlackSays, NatsumiPosts, RecordOwn, channel, theRecord
  <2> QED BY <2>1, RecordAside
<1>2. ASSUME NEW ts \in DOMAIN said, SlackEdits(ts) \/ SlackDeletes(ts) \/ \E who \in Speakers : SlackReacts(ts, who)
      PROVE  GoodRecord'
  <2>1. UNCHANGED <<talk, rows, days, marked, toldOf, spoiled, hushed, handling>>
    BY <1>2 DEF SlackEdits, SlackDeletes, SlackReacts, Altered, theRecord
  <2> QED BY <2>1, RecordAside
<1>3. ASSUME NEW i \in DOMAIN events, SlackRepeats(i) PROVE GoodRecord'
  <2>1. UNCHANGED <<talk, rows, days, marked, toldOf, spoiled, hushed, handling>>
    BY <1>3 DEF SlackRepeats, channel, theRecord
  <2> QED BY <2>1, RecordAside
<1>4. CASE SlackStarts \/ SlackConnects \/ SocketCloses
  <2>1. UNCHANGED <<talk, rows, days, marked, toldOf, spoiled, hushed, handling>>
    BY <1>4 DEF SlackStarts, SlackConnects, SocketCloses, theRecord, notes
  <2> QED BY <2>1, RecordAside
<1>5. CASE SlackDies
  BY <1>5, RecordDies
<1>6. CASE TakesMessage \/ TakesChanged \/ TakesFill
  <2>1. UNCHANGED <<talk, rows, days, marked, toldOf, spoiled, hushed>> /\ handling = AtRest
    BY <1>6 DEF TakesMessage, TakesChanged, TakesFill, TakesEvent, channel, theRecord, notes
  <2>2. handling'.at = "next"
    BY <1>6 DEF TakesMessage, TakesChanged, TakesFill, Handles
  <2> QED BY <2>1, <2>2, RecordAside DEF AtRest
<1>7. CASE FillFails \/ EventFails
  <2>1. UNCHANGED <<talk, rows, days, marked, toldOf, spoiled, hushed, handling>>
    BY <1>7 DEF FillFails, EventFails, channel, theRecord, notes
  <2> QED BY <2>1, RecordAside
<1>8. CASE TakesDeleted
  <2>1. TakesEvent("deleted")
    BY <1>8 DEF TakesDeleted
  <2> DEFINE e == events[1]
  <2>2. Head(events) = e /\ e.ts \in DOMAIN said /\ e.ts \in TimeStamps
    BY <2>1, HeadFits
  <2> HIDE DEF e
  <2>3. PICK ts \in DOMAIN said : ts = e.ts /\ ts \in TimeStamps
    BY <2>2
  <2> DEFINE row == [rows[ts] EXCEPT !.deleted = TRUE]
  <2>4. Changes(ts, ~rows[ts].deleted, row)
    BY <1>8, <2>2, <2>3 DEF TakesDeleted
  <2>5. HasRow(ts) => row \in SlackRows /\ row.line = rows[ts].line /\ row.day = rows[ts].day
    BY <1>0, <2>3, ChangedRow
  <2> HIDE DEF row
  <2> QED BY <2>1, <2>4, <2>5, RecordChanges
<1>9. CASE TakesReacted
  <2>1. TakesEvent("reacted")
    BY <1>9 DEF TakesReacted
  <2> DEFINE e == events[1]
  <2>2. Head(events) = e /\ e.ts \in DOMAIN said /\ e.ts \in TimeStamps /\ e.type = "reacted" /\ EventFits(e)
    BY <2>1, HeadFits
  <2>3. e.x \in Speakers
    BY <2>2 DEF EventFits
  <2> HIDE DEF e
  <2>4. PICK ts \in DOMAIN said : ts = e.ts /\ ts \in TimeStamps
    BY <2>2
  <2> DEFINE S == rows[ts].reacted \cup {e.x}
             row == [rows[ts] EXCEPT !.reacted = S]
  <2>5. Changes(ts, e.x \notin rows[ts].reacted, row)
    BY <1>9, <2>2, <2>4 DEF TakesReacted
  <2>6. HasRow(ts) => S \in SUBSET Speakers
    <3>1. HasRow(ts) => rows[ts].reacted \in SUBSET Speakers
      BY <1>0, <2>4, ChangedRow
    <3> QED BY <2>3, <3>1
  <2> HIDE DEF S
  <2>7. HasRow(ts) => row \in SlackRows /\ row.line = rows[ts].line /\ row.day = rows[ts].day
    BY <1>0, <2>4, <2>6, ChangedRow
  <2> HIDE DEF row
  <2> QED BY <2>1, <2>5, <2>7, RecordChanges
<1>10. CASE TakesUnreacted
  <2>1. TakesEvent("unreacted")
    BY <1>10 DEF TakesUnreacted
  <2> DEFINE e == events[1]
  <2>2. Head(events) = e /\ e.ts \in DOMAIN said /\ e.ts \in TimeStamps
    BY <2>1, HeadFits
  <2> HIDE DEF e
  <2>4. PICK ts \in DOMAIN said : ts = e.ts /\ ts \in TimeStamps
    BY <2>2
  <2> DEFINE S == rows[ts].reacted \ {e.x}
             row == [rows[ts] EXCEPT !.reacted = S]
  <2>5. Changes(ts, e.x \in rows[ts].reacted, row)
    BY <1>10, <2>2, <2>4 DEF TakesUnreacted
  <2>6. HasRow(ts) => S \in SUBSET Speakers
    <3>1. HasRow(ts) => rows[ts].reacted \in SUBSET Speakers
      BY <1>0, <2>4, ChangedRow
    <3> QED BY <3>1
  <2> HIDE DEF S
  <2>7. HasRow(ts) => row \in SlackRows /\ row.line = rows[ts].line /\ row.day = rows[ts].day
    BY <1>0, <2>4, <2>6, ChangedRow
  <2> HIDE DEF row
  <2> QED BY <2>1, <2>5, <2>7, RecordChanges
<1>11. CASE FetchesParent \/ ParentFails \/ FetchesThread \/ Handled
  <2>1. UNCHANGED <<talk, rows, days, marked, toldOf, spoiled, hushed>> /\ handling.at # "write"
    BY <1>11 DEF FetchesParent, ParentFails, FetchesThread, Handled, WantsParent, channel, theRecord, notes
  <2>2. handling'.at # "write"
    <3>1. CASE Handled
      BY <3>1 DEF Handled, AtRest
    <3>2. CASE FetchesParent \/ ParentFails \/ FetchesThread
      <4>1. \E items : handling' = [handling EXCEPT !.at = "next", !.items = items]
        BY <3>2 DEF FetchesParent, ParentFails, FetchesThread, At
      <4> QED BY <1>0, <4>1 DEF SlackTypes
    <3> QED BY <1>11, <3>1, <3>2
  <2> QED BY <2>1, <2>2, RecordAside
<1>12. CASE RecordsRow
  BY <1>12, RecordRowKeeps
<1>13. CASE RecordsFile
  BY <1>13, RecordFileKeeps
<1>14. CASE FileFails
  BY <1>14, RecordFileFails
<1> QED BY <1>1, <1>2, <1>3, <1>4, <1>5, <1>6, <1>7, <1>8, <1>9, <1>10, <1>11, <1>12, <1>13, <1>14 DEF SlackNext

-----------------------------------------------------------------------------
(*                     what is still to be recorded                        *)

\* Top-level messages that are not recorded and not known to be passed over.
Wanting(ts) == ts \in DOMAIN said /\ Saying(ts).thread = 0 /\ ~said[ts].deleted /\ ~HasRow(ts) /\ ts \notin missed
IsGoing(ts) == \E k \in InHand : ItemOf(k).ts = ts
EventFor(ts) ==
  \E j \in DOMAIN events : /\ events[j].type = "message" /\ events[j].ts = ts
                           /\ \A i \in 1..(j - 1) : Gives(events[i]) => events[i].ts <= ts

\* What is wanted is later than what is recorded, and comes, and comes before what is later.
WantedLater == \A ts \in TimeStamps : Wanting(ts) => \A t \in TimeStamps : HasRow(t) /\ rows[t].thread = 0 => t < ts
WantedComes == ~behind => \A ts \in TimeStamps : Wanting(ts) => IsGoing(ts) \/ EventFor(ts)
WantedFirst ==
  \A ts \in TimeStamps : Wanting(ts) =>
    \A k \in ToRecord :
       ItemOf(k).ts > ts /\ (IF handling.live THEN ~behind ELSE ItemOf(k).thread = 0) => \E j \in 1..(k - 1) : ItemOf(j).ts = ts
WantedAll == WantedLater /\ WantedComes /\ WantedFirst

LEMMA CursorIs ==
  ASSUME SlackTypes
  PROVE  /\ Cursor(rows) \in Nat
         /\ \A ts \in TimeStamps : HasRow(ts) /\ rows[ts].thread = 0 => ts <= Cursor(rows)
         /\ Cursor(rows) = 0 \/ (Cursor(rows) \in TimeStamps /\ HasRow(Cursor(rows)) /\ rows[Cursor(rows)].thread = 0)
<1> DEFINE T == {ts \in TimeStamps : HasRow(ts) /\ rows[ts].thread = 0}
           S == {0} \cup T
<1>1. TimeStamps = 1..Len(DaySaid) /\ Len(DaySaid) \in Nat
  BY SaidFacts
<1>2. S \in SUBSET Nat /\ S # {}
  BY <1>1
<1>3. IsFiniteSet(S)
  <2>1. IsFiniteSet(T)
    <3>1. IsFiniteSet(TimeStamps) /\ T \in SUBSET TimeStamps
      BY <1>1, FS_Interval
    <3> HIDE DEF T
    <3> QED BY <3>1, FS_Subset
  <2> QED BY <2>1, FS_Singleton, FS_Union
<1>4. Cursor(rows) = Max(S)
  BY DEF Cursor, HasRow
<1>5. Max(S) \in S /\ \A x \in S : x <= Max(S)
  BY <1>2, <1>3, GreatestOfFinite
<1> QED BY <1>2, <1>4, <1>5

LEMMA NoGapLeft == ASSUME SlackTypes, WantedLater PROVE NoneMissed
<1> SUFFICES ASSUME NEW ts \in DOMAIN said, Saying(ts).thread = 0, ~said[ts].deleted, ts < Cursor(rows), ~HasRow(ts), ts \notin missed
             PROVE  FALSE
  BY DEF NoneMissed
<1>1. Wanting(ts) /\ ts \in TimeStamps /\ ts \in Nat /\ ts # 0
  BY SaidFacts DEF Wanting
<1>2. Cursor(rows) \in TimeStamps /\ HasRow(Cursor(rows)) /\ rows[Cursor(rows)].thread = 0 /\ Cursor(rows) \in Nat
  BY <1>1, CursorIs
<1>3. Cursor(rows) < ts
  BY <1>1, <1>2 DEF WantedLater
<1> QED BY <1>1, <1>2, <1>3

LEMMA EventQueued ==
  ASSUME events \in Seq(SlackEvents), NEW e \in SlackEvents, events' = Append(events, e), NEW ts, EventFor(ts)
  PROVE  EventFor(ts)'
<1>1. /\ Len(events) \in Nat /\ DOMAIN events = 1..Len(events) /\ DOMAIN events' = 1..(Len(events) + 1)
      /\ \A i \in DOMAIN events : events'[i] = events[i]
  BY Queued
<1>2. PICK j \in DOMAIN events : events[j].type = "message" /\ events[j].ts = ts /\ \A i \in 1..(j - 1) : Gives(events[i]) => events[i].ts <= ts
  BY DEF EventFor
<1>3. j \in DOMAIN events' /\ events'[j] = events[j]
  BY <1>1
<1>4. \A i \in 1..(j - 1) : i \in DOMAIN events /\ events'[i] = events[i]
  BY <1>1
<1>5. \A i \in 1..(j - 1) : Gives(events[i])' => events'[i].ts <= ts
  BY <1>2, <1>4 DEF Gives
<1> QED BY <1>2, <1>3, <1>5 DEF EventFor

LEMMA EventTaken ==
  ASSUME events \in Seq(SlackEvents), events # <<>>, events' = Tail(events), NEW ts, EventFor(ts),
         ~(events[1].type = "message" /\ events[1].ts = ts)
  PROVE  /\ EventFor(ts)'
         /\ Gives(events[1]) => events[1].ts <= ts
<1>1. /\ Len(events) \in Nat /\ DOMAIN events = 1..Len(events) /\ DOMAIN events' = 1..(Len(events) - 1)
      /\ \A i \in DOMAIN events' : i + 1 \in DOMAIN events /\ events'[i] = events[i + 1]
  BY HeadTaken
<1>2. PICK j \in DOMAIN events : events[j].type = "message" /\ events[j].ts = ts /\ \A i \in 1..(j - 1) : Gives(events[i]) => events[i].ts <= ts
  BY DEF EventFor
<1>3. j # 1
  BY <1>2
<1>4. j - 1 \in DOMAIN events' /\ (j - 1) + 1 = j /\ 1 \in 1..(j - 1)
  BY <1>1, <1>3
<1>5. events'[j - 1] = events[j]
  BY <1>1, <1>4
<1>6. ASSUME NEW i \in 1..((j - 1) - 1) PROVE Gives(events[i])' => events'[i].ts <= ts
  <2>1. i \in DOMAIN events' /\ i + 1 \in 1..(j - 1)
    BY <1>1
  <2> QED BY <1>1, <1>2, <2>1 DEF Gives
<1> QED BY <1>2, <1>4, <1>5, <1>6 DEF EventFor

\* Nothing comes to be wanted but what is said.
LEMMA LaterStays ==
  ASSUME WantedLater, \A ts \in TimeStamps : Wanting(ts)' => Wanting(ts),
         \A t \in TimeStamps : HasRow(t)' /\ rows'[t].thread = 0 => HasRow(t) /\ rows[t].thread = 0
  PROVE  WantedLater'
  BY DEF WantedLater

LEMMA WantingStays ==
  ASSUME talk' = talk, DOMAIN said' = DOMAIN said, \A t \in DOMAIN said : ~said'[t].deleted => ~said[t].deleted,
         \A t \in TimeStamps : HasRow(t) => HasRow(t)', missed \subseteq missed'
  PROVE  \A ts \in TimeStamps : Wanting(ts)' => Wanting(ts)
  BY DEF Wanting, Saying

\* The queue grows, and nothing of what is handled changes.
LEMMA WantedAside ==
  ASSUME SlackShape, WantedAll, UNCHANGED <<talk, handling, rows, missed, behind>>, DOMAIN said' = DOMAIN said,
         \A t \in DOMAIN said : ~said'[t].deleted => ~said[t].deleted,
         events' = events \/ \E e \in SlackEvents : events' = Append(events, e)
  PROVE  WantedAll'
<1> USE DEF SlackShape, WantedAll
<1>1. \A t \in TimeStamps : HasRow(t)' <=> HasRow(t)
  BY DEF HasRow
<1>2. \A ts \in TimeStamps : Wanting(ts)' => Wanting(ts)
  BY <1>1, WantingStays
<1>3. WantedLater'
  BY <1>1, <1>2, LaterStays
<1>4. InHand' = InHand /\ ToRecord' = ToRecord /\ (\A k : ItemOf(k)' = ItemOf(k)) /\ (\A ts : IsGoing(ts) => IsGoing(ts)')
  BY DEF InHand, ToRecord, ItemOf, IsGoing
<1>5. ASSUME NEW ts, EventFor(ts) PROVE EventFor(ts)'
  <2>1. CASE events' = events
    BY <1>5, <2>1 DEF EventFor, Gives
  <2>2. ASSUME NEW e \in SlackEvents, events' = Append(events, e) PROVE EventFor(ts)'
    <3>1. events \in Seq(SlackEvents)
      BY DEF SlackTypes
    <3> QED BY <1>5, <2>2, <3>1, EventQueued
  <2> QED BY <2>1, <2>2
<1>6. WantedComes'
  BY <1>2, <1>4, <1>5 DEF WantedComes
<1>7. WantedFirst'
  BY <1>2, <1>4 DEF WantedFirst
<1> QED BY <1>3, <1>6, <1>7

LEMMA WantedSays ==
  ASSUME SlackShape, WantedAll, NEW by, Says(by), UNCHANGED <<talk, socket, handling, rows, missed, behind>>
  PROVE  WantedAll'
<1> USE DEF SlackShape, WantedAll
<1>0. PICK new : new = Len(said) + 1
  OBVIOUS
<1>1. /\ new \in 1..Len(talk.says) /\ new \in Nat /\ new \notin DOMAIN said
      /\ DOMAIN said' = 1..new /\ DOMAIN said' = DOMAIN said \cup {new}
      /\ \A t \in DOMAIN said : said'[t] = said[t]
      /\ SlackSends("message", new, 0)
  BY <1>0, SaidMore
<1>2. \A t \in TimeStamps : HasRow(t)' <=> HasRow(t)
  BY DEF HasRow
<1>3. ASSUME NEW ts \in TimeStamps, Wanting(ts)' PROVE ts = new \/ Wanting(ts)
  BY <1>1, <1>2, <1>3 DEF Wanting, Saying
<1>4. \A t \in DOMAIN said : t < new
  BY <1>1
<1>5. WantedLater'
  <2> SUFFICES ASSUME NEW ts \in TimeStamps, Wanting(ts)', NEW t \in TimeStamps, HasRow(t), rows[t].thread = 0 PROVE t < ts
    BY <1>2 DEF WantedLater
  <2>1. t \in DOMAIN said
    BY DEF OfWhatWasSaid
  <2> QED BY <1>3, <1>4, <2>1 DEF WantedLater
<1>6. InHand' = InHand /\ ToRecord' = ToRecord /\ (\A k : ItemOf(k)' = ItemOf(k)) /\ (\A ts : IsGoing(ts) => IsGoing(ts)')
  BY DEF InHand, ToRecord, ItemOf, IsGoing
<1>7. WantedFirst'
  <2> SUFFICES ASSUME NEW ts \in TimeStamps, Wanting(ts)', NEW k \in ToRecord, ItemOf(k).ts > ts,
                      IF handling.live THEN ~behind ELSE ItemOf(k).thread = 0
               PROVE  \E j \in 1..(k - 1) : ItemOf(j).ts = ts
    BY <1>6 DEF WantedFirst
  <2>1. k \in InHand
    BY DEF ToRecord
  <2>2. ItemOf(k).ts \in DOMAIN said /\ ItemOf(k).ts \in Nat
    BY <2>1, SaidFacts DEF HandlingShape, ItemsFit
  <2>3. ts # new
    BY <1>1, <1>4, <2>2
  <2> QED BY <1>3, <2>3 DEF WantedFirst
<1>8. WantedComes'
  <2> SUFFICES ASSUME ~behind, NEW ts \in TimeStamps, Wanting(ts)' PROVE IsGoing(ts)' \/ EventFor(ts)'
    BY DEF WantedComes
  <2> DEFINE e == Event("message", new, 0)
  <2>1. socket = "open"
    BY DEF OfWhatWasSaid
  <2>2. events' = Append(events, e)
    BY <1>1, <2>1 DEF SlackSends
  <2>3. e \in SlackEvents /\ e.type = "message" /\ e.ts = new
    BY <1>1 DEF Event, SlackEvents
  <2> HIDE DEF e
  <2>4. events \in Seq(SlackEvents)
    BY DEF SlackTypes
  <2>5. CASE Wanting(ts)
    <3>1. IsGoing(ts) \/ EventFor(ts)
      BY <2>5 DEF WantedComes
    <3> QED BY <1>6, <2>2, <2>3, <2>4, <3>1, EventQueued
  <2>6. CASE ts = new
    <3>1. /\ Len(events) \in Nat /\ DOMAIN events = 1..Len(events) /\ DOMAIN events' = 1..(Len(events) + 1)
          /\ \A i \in DOMAIN events : events'[i] = events[i]
          /\ events'[Len(events) + 1] = e
      BY <2>2, <2>3, <2>4, Queued
    <3>2. PICK n \in Nat : n = Len(events) + 1
      BY <3>1
    <3>3. n \in DOMAIN events' /\ events'[n].type = "message" /\ events'[n].ts = ts
      BY <2>3, <2>6, <3>1, <3>2
    <3>4. ASSUME NEW i \in 1..(n - 1), Gives(events'[i]) PROVE events'[i].ts <= ts
      <4>1. i \in DOMAIN events /\ events'[i] = events[i]
        BY <3>1, <3>2
      <4>2. EventFits(events[i])
        BY <4>1 DEF OfWhatWasSaid
      <4>3. events[i].ts \in DOMAIN said
        BY <3>4, <4>1, <4>2 DEF EventFits, Gives
      <4>4. events[i].ts < new /\ events[i].ts \in Nat
        BY <1>4, <4>3, SaidFacts
      <4> QED BY <1>1, <2>6, <4>1, <4>4
    <3>5. \A i \in 1..(n - 1) : Gives(events[i])' => events'[i].ts <= ts
      BY <3>4 DEF Gives
    <3> QED BY <3>3, <3>5 DEF EventFor
  <2> QED BY <1>3, <2>5, <2>6
<1> QED BY <1>5, <1>7, <1>8

LEMMA WantedBehind ==
  ASSUME SlackShape, SlackShape', WantedAll, SocketCloses \/ SlackDies
  PROVE  WantedAll'
<1> USE DEF SlackShape, WantedAll
<1>1. UNCHANGED <<talk, said, rows, missed>> /\ behind' = TRUE
  BY DEF SocketCloses, SlackDies, theRecord
<1>2. \A t \in TimeStamps : HasRow(t)' <=> HasRow(t)
  BY <1>1 DEF HasRow
<1>3. \A ts \in TimeStamps : Wanting(ts)' => Wanting(ts)
  BY <1>1, <1>2, WantingStays
<1>4. WantedLater'
  BY <1>1, <1>2, <1>3, LaterStays
<1>5. WantedComes'
  BY <1>1 DEF WantedComes
<1>6. WantedFirst'
  <2>1. CASE SocketCloses
    <3>1. handling' = handling
      BY <2>1 DEF SocketCloses
    <3>2. InHand' = InHand /\ ToRecord' = ToRecord /\ (\A k : ItemOf(k)' = ItemOf(k))
      BY <3>1 DEF InHand, ToRecord, ItemOf
    <3> QED BY <1>1, <1>3, <3>1, <3>2 DEF WantedFirst
  <2>2. CASE SlackDies
    <3>1. handling' = AtRest
      BY <2>2 DEF SlackDies
    <3>2. (handling = AtRest => ToRecord = {})'
      <4>1. handling = AtRest => ToRecord = {}
        BY AtRestFits
      <4> QED BY AtRestFits, PTL
    <3> QED BY <3>1, <3>2 DEF WantedFirst
  <2> QED BY <2>1, <2>2
<1> QED BY <1>4, <1>5, <1>6

\* A message, or an edit of one, is taken up by itself.
LEMMA MessageTaken ==
  ASSUME SlackShape, TakesMessage \/ TakesChanged
  PROVE  LET e == events[1] IN
         /\ handling = AtRest /\ events # <<>> /\ events' = Tail(events)
         /\ UNCHANGED <<talk, said, socket, posting, rows, days, marked, toldOf, unsure, hushed, spoiled, missed, behind>>
         /\ e.ts \in DOMAIN said /\ e.ts \in TimeStamps /\ Gives(e) /\ (e.type = "message" <=> TakesMessage)
         /\ \E item \in Items : /\ handling' = [at |-> "next", items |-> <<item>>, live |-> TRUE, raises |-> TRUE, new |-> FALSE]
                              /\ item.ts = e.ts /\ item.text = e.x /\ item.reacted = NotSaid
<1> USE DEF SlackShape
<1> DEFINE e == events[1]
<1>1. /\ handling = AtRest /\ events # <<>> /\ events' = Tail(events)
      /\ UNCHANGED <<talk, said, socket, posting, rows, days, marked, toldOf, unsure, hushed, spoiled, missed, behind>>
  BY DEF TakesMessage, TakesChanged, TakesEvent, channel, theRecord, notes
<1>2. ASSUME TakesMessage PROVE Head(events) = e /\ e.ts \in DOMAIN said /\ e.ts \in TimeStamps /\ e.type = "message" /\ EventFits(e)
  <2>1. TakesEvent("message")
    BY <1>2 DEF TakesMessage
  <2> QED BY <2>1, HeadFits
<1>3. ASSUME TakesChanged PROVE Head(events) = e /\ e.ts \in DOMAIN said /\ e.ts \in TimeStamps /\ e.type = "changed" /\ EventFits(e)
  <2>1. TakesEvent("changed")
    BY <1>3 DEF TakesChanged
  <2> QED BY <2>1, HeadFits
<1>4. TakesChanged => ~TakesMessage
  BY <1>2, <1>3
<1> HIDE DEF e
<1>5. e.ts \in DOMAIN said /\ e.ts \in TimeStamps /\ Gives(e) /\ (e.type = "message" <=> TakesMessage) /\ Head(events) = e /\ e.x \in Nat
  BY <1>2, <1>3 DEF EventFits, Gives
<1>6. \E item \in Items : /\ handling' = [at |-> "next", items |-> <<item>>, live |-> TRUE, raises |-> TRUE, new |-> FALSE]
                         /\ item.ts = e.ts /\ item.text = e.x /\ item.reacted = NotSaid
  <2>0. Saying(e.ts).thread \in {0} \cup TimeStamps
    <3>1. Saying(e.ts).thread # 0 => Saying(e.ts).thread \in TimeStamps
      BY <1>5, SaidFacts
    <3> QED BY <3>1
  <2>1. CASE TakesMessage
    <3> DEFINE item == Item(e.ts, e.x, Saying(e.ts).thread, NotSaid)
    <3>1. handling' = [at |-> "next", items |-> <<item>>, live |-> TRUE, raises |-> TRUE, new |-> FALSE]
      BY <1>5, <2>1 DEF TakesMessage, Handles
    <3>2. item \in Items /\ item.ts = e.ts /\ item.text = e.x /\ item.reacted = NotSaid
      BY <1>5, <2>0, ItemFacts
    <3> HIDE DEF item
    <3> QED BY <3>1, <3>2
  <2>2. CASE TakesChanged
    <3> DEFINE item == Quietly(Item(e.ts, e.x, 0, NotSaid))
    <3>1. handling' = [at |-> "next", items |-> <<item>>, live |-> TRUE, raises |-> TRUE, new |-> FALSE]
      BY <1>5, <2>2 DEF TakesChanged, Handles
    <3>2. item \in Items /\ item.ts = e.ts /\ item.text = e.x /\ item.reacted = NotSaid
      BY <1>5, ItemFacts
    <3> HIDE DEF item
    <3> QED BY <3>1, <3>2
  <2> QED BY <2>1, <2>2
<1> QED BY <1>1, <1>5, <1>6 DEF e

LEMMA WantedOne ==
  ASSUME SlackShape, WantedAll, TakesMessage \/ TakesChanged
  PROVE  WantedAll'
<1> USE DEF SlackShape, WantedAll
<1> DEFINE e == events[1]
<1>1. /\ handling = AtRest /\ events # <<>> /\ events' = Tail(events) /\ UNCHANGED <<talk, said, rows, missed, behind>>
  BY MessageTaken
<1>2. e.ts \in DOMAIN said /\ e.ts \in TimeStamps /\ Gives(e)
  BY MessageTaken
<1>3. PICK item : handling' = [at |-> "next", items |-> <<item>>, live |-> TRUE, raises |-> TRUE, new |-> FALSE] /\ item.ts = e.ts
  BY MessageTaken
<1> HIDE DEF e
<1>4. InHand' = {1} /\ ToRecord' = {1} /\ ItemOf(1)' = item /\ handling'.live
  BY <1>3 DEF InHand, ToRecord, ItemOf
<1>5. \A t \in TimeStamps : HasRow(t)' <=> HasRow(t)
  BY <1>1 DEF HasRow
<1>6. \A ts \in TimeStamps : Wanting(ts)' => Wanting(ts)
  BY <1>1, <1>5, WantingStays
<1>7. WantedLater'
  BY <1>1, <1>5, <1>6, LaterStays
<1>8. \A ts : ~IsGoing(ts)
  BY <1>1, AtRestFits DEF IsGoing
<1>9. events \in Seq(SlackEvents) /\ e.ts \in Nat
  BY <1>2, SaidFacts DEF SlackTypes
<1>10. ASSUME ~behind, NEW ts \in TimeStamps, Wanting(ts), ts # e.ts PROVE EventFor(ts)' /\ e.ts <= ts
  <2>1. EventFor(ts)
    BY <1>8, <1>10 DEF WantedComes
  <2> QED BY <1>1, <1>2, <1>9, <1>10, <2>1, EventTaken DEF e
<1>11. WantedComes'
  <2> SUFFICES ASSUME ~behind, NEW ts \in TimeStamps, Wanting(ts)' PROVE IsGoing(ts)' \/ EventFor(ts)'
    BY <1>1 DEF WantedComes
  <2>1. CASE ts = e.ts
    BY <1>3, <1>4, <2>1 DEF IsGoing
  <2>2. CASE ts # e.ts
    BY <1>6, <1>10, <2>2
  <2> QED BY <2>1, <2>2
<1>12. WantedFirst'
  <2> SUFFICES ASSUME NEW ts \in TimeStamps, Wanting(ts)', item.ts > ts, ~behind PROVE FALSE
    BY <1>1, <1>4 DEF WantedFirst
  <2>1. ts \in Nat /\ item.ts = e.ts
    BY <1>3, SaidFacts
  <2>2. e.ts <= ts
    BY <1>6, <1>9, <1>10, <2>1
  <2> QED BY <1>9, <2>1, <2>2
<1> QED BY <1>7, <1>11, <1>12

\* An event that records nothing is over, or one that changes a row.
LEMMA WantedDrops ==
  ASSUME SlackShape, WantedAll, events # <<>>, events' = Tail(events), handling = AtRest, UNCHANGED <<talk, said, behind>>,
         missed \subseteq missed', events[1].type = "message" => events[1].ts \in missed',
         \A t \in TimeStamps : (HasRow(t)' <=> HasRow(t)) /\ (HasRow(t) => rows'[t].thread = rows[t].thread),
         ToRecord' = {}
  PROVE  WantedAll'
<1> USE DEF SlackShape, WantedAll
<1>1. \A ts \in TimeStamps : Wanting(ts)' => Wanting(ts)
  BY WantingStays
<1>2. WantedLater'
  BY <1>1, LaterStays
<1>3. \A ts : ~IsGoing(ts)
  BY AtRestFits DEF IsGoing
<1>4. WantedComes'
  <2> SUFFICES ASSUME ~behind, NEW ts \in TimeStamps, Wanting(ts)' PROVE EventFor(ts)'
    BY DEF WantedComes
  <2>1. EventFor(ts) /\ ts \notin missed'
    BY <1>1, <1>3 DEF WantedComes, Wanting
  <2>2. ~(events[1].type = "message" /\ events[1].ts = ts)
    BY <2>1
  <2>3. events \in Seq(SlackEvents)
    BY DEF SlackTypes
  <2> QED BY <2>1, <2>2, <2>3, EventTaken
<1>5. WantedFirst'
  BY DEF WantedFirst
<1> QED BY <1>2, <1>4, <1>5

LEMMA WantedFill == ASSUME SlackShape, WantedAll, TakesFill PROVE WantedAll'
<1> USE DEF SlackShape, WantedAll
<1>1. UNCHANGED <<talk, said, rows, missed>>
  BY DEF TakesFill, channel, theRecord
<1>2. /\ ~handling'.live
      /\ \A j, k \in InHand' : j < k => ItemOf(j)'.ts < ItemOf(k)'.ts
      /\ \A ts \in DOMAIN said : (Saying(ts).thread = 0 /\ ~said[ts].deleted /\ ts > Cursor(rows)) =>
              \E k \in InHand' : ItemOf(k)'.ts = ts
      /\ InHand' = 1..Len(handling'.items) /\ Len(handling'.items) \in Nat
      /\ \A k \in InHand' : ItemOf(k)'.ts \in DOMAIN said
  BY FillTakes
<1>3. \A t \in TimeStamps : HasRow(t)' <=> HasRow(t)
  BY <1>1 DEF HasRow
<1>4. \A ts \in TimeStamps : Wanting(ts)' => Wanting(ts)
  BY <1>1, <1>3, WantingStays
<1>5. WantedLater'
  BY <1>1, <1>3, <1>4, LaterStays
<1>6. ASSUME NEW ts \in TimeStamps, Wanting(ts)' PROVE \E k \in InHand' : ItemOf(k)'.ts = ts
  <2>1. Wanting(ts) /\ ts \in DOMAIN said /\ Saying(ts).thread = 0 /\ ~said[ts].deleted /\ ts \in Nat /\ ts # 0
    BY <1>4, <1>6, SaidFacts DEF Wanting
  <2>2. ts > Cursor(rows)
    BY <2>1, CursorIs DEF WantedLater
  <2> QED BY <1>2, <2>1, <2>2
<1>7. WantedComes'
  BY <1>6 DEF WantedComes, IsGoing
<1>8. WantedFirst'
  <2> SUFFICES ASSUME NEW ts \in TimeStamps, Wanting(ts)', NEW k \in InHand', ItemOf(k)'.ts > ts
               PROVE  \E j \in 1..(k - 1) : ItemOf(j)'.ts = ts
    BY DEF WantedFirst, ToRecord
  <2>1. PICK j \in InHand' : ItemOf(j)'.ts = ts
    BY <1>6
  <2>2. ts \in Nat /\ ItemOf(k)'.ts \in Nat
    BY <1>2, SaidFacts
  <2>3. ~(k < j) /\ j # k
    BY <1>2, <2>1, <2>2
  <2>4. j \in 1..(k - 1)
    BY <1>2, <2>3
  <2> QED BY <2>1, <2>4
<1> QED BY <1>5, <1>7, <1>8

\* A reply whose parent was fetched, or not, is handled by itself, after its parent.
LEMMA ParentTakes ==
  ASSUME SlackShape, FetchesParent \/ ParentFails
  PROVE  /\ handling.at = "next" /\ handling.live /\ InHand = {1} /\ First = ItemOf(1) /\ ~HasRow(First.thread)
         /\ First.ts \in DOMAIN said /\ First.thread \in DOMAIN said /\ First.thread < First.ts
         /\ handling'.at = "next" /\ handling'.live
         /\ \E n \in {1, 2} :
              /\ InHand' = 1..n
              /\ ItemOf(n)'.ts = First.ts /\ ItemOf(n)'.text = First.text /\ ItemOf(n)'.reacted = First.reacted
              /\ n = 2 => /\ ItemOf(1)'.ts = First.thread /\ ~said[First.thread].deleted
                          /\ ItemOf(1)'.text = said[First.thread].text /\ ItemOf(1)'.reacted = said[First.thread].reacted
         /\ UNCHANGED <<talk, said, socket, posting, events, rows, days, marked, toldOf, unsure, hushed, spoiled, missed, behind>>
<1> USE DEF SlackShape
<1>1. WantsParent /\ UNCHANGED <<talk, said, socket, posting, events, rows, days, marked, toldOf, unsure, hushed, spoiled, missed, behind>>
  BY DEF FetchesParent, ParentFails, channel, theRecord, notes
<1>2. /\ handling.live /\ First \in Items /\ First.ts \in DOMAIN said /\ InHand = {1} /\ First = ItemOf(1)
      /\ Rest = <<>> /\ First.thread \in DOMAIN said /\ First.thread < First.ts
  BY <1>1, WantedParent
<1>3. PICK a \in Items : /\ a = [First EXCEPT !.alone = TRUE]
                         /\ a.ts = First.ts /\ a.text = First.text /\ a.reacted = First.reacted
  BY <1>2, AloneFacts
<1>4. PICK p \in Items : /\ p = Quietly(FromApi(First.thread))
                         /\ p.ts = First.thread /\ p.text = said[First.thread].text /\ p.reacted = said[First.thread].reacted
  BY <1>2, FromApiFacts
<1>5. At("next", <<a>>) \/ (At("next", <<p, a>>) /\ ~said[First.thread].deleted)
  <2>1. CASE ParentFails
    <3>1. At("next", <<a>> \o <<>>)
      BY <1>2, <1>3, <2>1 DEF ParentFails
    <3>2. <<a>> \o <<>> = <<a>>
      OBVIOUS
    <3> QED BY <3>1, <3>2
  <2>2. CASE FetchesParent
    <3>1. At("next", <<>> \o <<a>> \o <<>>) \/ (At("next", <<p>> \o <<a>> \o <<>>) /\ ~said[First.thread].deleted)
      BY <1>2, <1>3, <1>4, <2>2 DEF FetchesParent
    <3>2. <<a>> \in Seq(Items) /\ <<p, a>> \in Seq(Items) /\ <<p>> \in Seq(Items)
      OBVIOUS
    <3>3. <<>> \o <<a>> = <<a>> /\ <<a>> \o <<>> = <<a>> /\ <<p, a>> \o <<>> = <<p, a>>
      BY <3>2, ConcatEmptySeq
    <3>4. <<p>> \o <<a>> = <<p, a>>
      <4>1. /\ <<p>> \o <<a>> \in Seq(Items) /\ Len(<<p>> \o <<a>>) = 2
            /\ (<<p>> \o <<a>>)[1] = p /\ (<<p>> \o <<a>>)[2] = a
        BY <3>2
      <4>2. Len(<<p, a>>) = 2 /\ <<p, a>>[1] = p /\ <<p, a>>[2] = a
        OBVIOUS
      <4> DEFINE s == <<p>> \o <<a>>
                 t == <<p, a>>
      <4>3. s \in Seq(Items) /\ t \in Seq(Items) /\ Len(s) = Len(t) /\ Len(s) = 2 /\ s[1] = t[1] /\ s[2] = t[2]
        BY <3>2, <4>1, <4>2
      <4> HIDE DEF s, t
      <4>4. \A i \in 1..Len(s) : s[i] = t[i]
        BY <4>3
      <4>5. s = t
        BY <4>3, <4>4, SeqEqual
      <4> QED BY <4>5 DEF s, t
    <3> QED BY <3>1, <3>3, <3>4
  <2> QED BY <2>1, <2>2
<1>6. handling.at = "next" /\ ~HasRow(First.thread)
  BY <1>1 DEF WantsParent
<1>7. CASE At("next", <<a>>)
  <2>1. <<a>> \in Seq(Items) /\ "next" \in {"idle", "next", "write", "thread"}
    OBVIOUS
  <2>2. handling'.at = "next" /\ handling'.items = <<a>> /\ handling'.live = handling.live
    BY <1>7, <2>1, AtGives
  <2>3. InHand' = 1..1 /\ ItemOf(1)' = a
    BY <2>2 DEF InHand, ItemOf
  <2>4. ItemOf(1)'.ts = First.ts /\ ItemOf(1)'.text = First.text /\ ItemOf(1)'.reacted = First.reacted
    BY <1>3, <2>3
  <2> QED BY <1>1, <1>2, <1>6, <2>2, <2>3, <2>4
<1>8. CASE At("next", <<p, a>>) /\ ~said[First.thread].deleted
  <2>1. <<p, a>> \in Seq(Items) /\ "next" \in {"idle", "next", "write", "thread"}
    OBVIOUS
  <2>2. handling'.at = "next" /\ handling'.items = <<p, a>> /\ handling'.live = handling.live
    BY <1>8, <2>1, AtGives
  <2>3. InHand' = 1..2 /\ ItemOf(1)' = p /\ ItemOf(2)' = a
    BY <2>2 DEF InHand, ItemOf
  <2>4. ItemOf(2)'.ts = First.ts /\ ItemOf(2)'.text = First.text /\ ItemOf(2)'.reacted = First.reacted
    BY <1>3, <2>3
  <2>5. ItemOf(1)'.ts = First.thread /\ ItemOf(1)'.text = said[First.thread].text /\ ItemOf(1)'.reacted = said[First.thread].reacted
    BY <1>4, <2>3
  <2> QED BY <1>1, <1>2, <1>6, <1>8, <2>2, <2>3, <2>4, <2>5
<1> QED BY <1>5, <1>7, <1>8

\* With no thread to fill in, only the rest is left.
LEMMA RestTaken ==
  ASSUME SlackShape, handling.items # <<>>, At("next", Rest)
  PROVE  ThreadTaken(0)
<1> USE DEF SlackShape
<1> DEFINE n == Len(handling.items)
<1>1. handling.items \in Seq(Items) /\ n \in Nat /\ InHand = 1..n
  BY HandlingFacts
<1>2. /\ Rest \in Seq(Items) /\ n >= 1 /\ Len(Rest) = n - 1 /\ DOMAIN Rest = 1..(n - 1)
      /\ \A k \in DOMAIN Rest : k + 1 \in InHand /\ Rest[k] = ItemOf(k + 1)
  BY <1>1, TailFacts DEF Rest, InHand, ItemOf
<1>3. handling' \in Handlings /\ handling'.at = "next" /\ handling'.items = Rest /\ handling'.live = handling.live
  BY <1>2, AtGives DEF Handlings
<1>4. /\ InHand' = 1..(n - 1) /\ Len(handling'.items) = n - 1
      /\ \A k \in InHand' : k + 1 \in InHand /\ ItemOf(k)' = ItemOf(k + 1)
  BY <1>2, <1>3 DEF InHand, ItemOf
<1> HIDE DEF n
<1>5. 0 \in Nat /\ InHand' = 1..(0 + n - 1) /\ Len(handling'.items) = 0 + n - 1 /\ 1..0 = {}
  BY <1>1, <1>4
<1>6. \A k \in (0 + 1)..(0 + n - 1) : k - 0 + 1 \in InHand /\ k - 0 + 1 # 1 /\ ItemOf(k)' = ItemOf(k - 0 + 1)
  <2> SUFFICES ASSUME NEW k \in (0 + 1)..(0 + n - 1) PROVE k - 0 + 1 \in InHand /\ k - 0 + 1 # 1 /\ ItemOf(k)' = ItemOf(k - 0 + 1)
    OBVIOUS
  <2>1. k \in InHand' /\ k - 0 + 1 = k + 1 /\ k + 1 # 1
    BY <1>1, <1>4
  <2> QED BY <1>4, <2>1
<1>7. \A k \in InHand : k # 1 => k + 0 - 1 \in InHand' /\ k + 0 - 1 > 0 /\ ItemOf(k + 0 - 1)' = ItemOf(k)
  <2> SUFFICES ASSUME NEW k \in InHand, k # 1 PROVE k + 0 - 1 \in InHand' /\ k + 0 - 1 > 0 /\ ItemOf(k + 0 - 1)' = ItemOf(k)
    OBVIOUS
  <2>1. k + 0 - 1 \in InHand' /\ (k + 0 - 1) + 1 = k /\ k + 0 - 1 > 0
    BY <1>1, <1>4
  <2>2. ItemOf(k + 0 - 1)' = ItemOf((k + 0 - 1) + 1)
    BY <1>4, <2>1
  <2> QED BY <2>1, <2>2
<1> QED BY <1>3, <1>5, <1>6, <1>7 DEF ThreadTaken, n

\* After the file of a message, or its thread, the handling goes on from a message recorded.
LEMMA GoesOnTakes ==
  ASSUME SlackShape, (RecordsFile \/ FileFails) \/ FetchesThread
  PROVE  /\ handling.at \in {"write", "thread"} /\ handling.items # <<>> /\ HasRow(First.ts) /\ First = ItemOf(1)
         /\ UNCHANGED <<talk, said, socket, posting, events, rows, unsure, missed, behind>>
         /\ \/ /\ handling'.at = "thread" /\ handling'.live = handling.live /\ InHand' = InHand /\ \A k : ItemOf(k)' = ItemOf(k)
            \/ \E m : ThreadTaken(m) /\ (m = 0 \/ First.replies)
<1> USE DEF SlackShape
<1>1. CASE RecordsFile \/ FileFails
  <2>1. handling.at = "write" /\ GoesOn /\ UNCHANGED <<talk, said, socket, posting, events, rows, unsure, missed, behind>>
    BY <1>1 DEF RecordsFile, FileFails, channel, theRecord
  <2>2. handling.items # <<>> /\ HasRow(First.ts)
    BY <2>1 DEF HandlingShape
  <2>3. First = ItemOf(1)
    BY <2>2, HandlingFacts
  <2>4. CASE First.replies
    <3>1. At("thread", handling.items) /\ handling.items \in Seq(Items) /\ "thread" \in {"idle", "next", "write", "thread"}
      BY <2>1, <2>4, HandlingFacts DEF GoesOn
    <3>2. handling'.at = "thread" /\ handling'.items = handling.items /\ handling'.live = handling.live
      BY <3>1, AtGives
    <3>3. InHand' = InHand /\ \A k : ItemOf(k)' = ItemOf(k)
      BY <3>2 DEF InHand, ItemOf
    <3> QED BY <2>1, <2>2, <2>3, <3>2, <3>3
  <2>5. CASE ~First.replies
    <3>1. ThreadTaken(0)
      BY <2>1, <2>2, <2>5, RestTaken DEF GoesOn
    <3> QED BY <2>1, <2>2, <2>3, <3>1
  <2> QED BY <2>4, <2>5
<1>2. CASE FetchesThread
  <2>1. handling.at = "thread" /\ UNCHANGED <<talk, said, socket, posting, events, rows, unsure, missed, behind>>
    BY <1>2 DEF FetchesThread, channel, theRecord, notes
  <2>2. handling.items # <<>> /\ HasRow(First.ts) /\ First.replies
    BY <2>1 DEF HandlingShape
  <2>3. First = ItemOf(1)
    BY <2>2, HandlingFacts
  <2>4. \E m : ThreadTaken(m)
    BY <1>2, <2>2, RestTaken, ThreadTakes
  <2> QED BY <2>1, <2>2, <2>3, <2>4
<1> QED BY <1>1, <1>2

\* What is handled changes, and the record and the queue stay.
LEMMA WantedHandled ==
  ASSUME SlackShape, WantedAll, UNCHANGED <<talk, said, events, rows, missed, behind>>,
         \A ts \in TimeStamps : Wanting(ts) /\ IsGoing(ts) => IsGoing(ts)',
         WantedFirst'
  PROVE  WantedAll'
<1> USE DEF SlackShape, WantedAll
<1>1. \A t \in TimeStamps : HasRow(t)' <=> HasRow(t)
  BY DEF HasRow
<1>2. \A ts \in TimeStamps : Wanting(ts)' <=> Wanting(ts)
  BY <1>1 DEF Wanting, Saying
<1>3. WantedLater'
  BY <1>1, <1>2, LaterStays
<1>4. \A ts : EventFor(ts)' <=> EventFor(ts)
  BY DEF EventFor, Gives
<1>5. WantedComes'
  BY <1>2, <1>4 DEF WantedComes
<1> QED BY <1>3, <1>5

LEMMA WantedParents == ASSUME SlackShape, WantedAll, FetchesParent \/ ParentFails PROVE WantedAll'
<1> USE DEF SlackShape, WantedAll
<1>1. /\ handling.at = "next" /\ handling.live /\ InHand = {1} /\ First = ItemOf(1)
      /\ First.ts \in DOMAIN said /\ First.thread \in DOMAIN said /\ First.thread < First.ts
      /\ handling'.at = "next" /\ handling'.live
      /\ UNCHANGED <<talk, said, events, rows, missed, behind>>
  BY ParentTakes
<1>2. PICK n \in {1, 2} : /\ InHand' = 1..n /\ ItemOf(n)'.ts = First.ts
                          /\ n = 2 => ItemOf(1)'.ts = First.thread
  BY ParentTakes
<1>3. ToRecord = {1} /\ ToRecord' = 1..n
  BY <1>1, <1>2 DEF ToRecord
<1>4. \A ts \in TimeStamps : Wanting(ts)' <=> Wanting(ts)
  BY <1>1 DEF Wanting, Saying, HasRow
<1>5. First.ts \in Nat /\ First.thread \in Nat
  BY <1>1, SaidFacts
<1>6. \A k \in 1..n : ItemOf(k)'.ts <= First.ts
  BY <1>1, <1>2, <1>5
<1>7. WantedFirst'
  <2> SUFFICES ASSUME NEW ts \in TimeStamps, Wanting(ts), NEW k \in 1..n, ItemOf(k)'.ts > ts, ~behind PROVE FALSE
    BY <1>1, <1>3, <1>4 DEF WantedFirst
  <2>1. ts \in Nat /\ ItemOf(k)'.ts <= First.ts /\ ItemOf(k)'.ts \in Nat
    BY <1>2, <1>5, <1>6, SaidFacts
  <2>2. ItemOf(1).ts > ts
    BY <1>1, <1>5, <2>1
  <2>3. \E j \in 1..(1 - 1) : ItemOf(j).ts = ts
    BY <1>1, <1>3, <2>2 DEF WantedFirst
  <2> QED BY <2>3
<1>8. \A ts \in TimeStamps : IsGoing(ts) => IsGoing(ts)'
  <2> SUFFICES ASSUME NEW ts, ts = First.ts PROVE IsGoing(ts)'
    BY <1>1 DEF IsGoing
  <2>1. n \in InHand' /\ ItemOf(n)'.ts = ts
    BY <1>2
  <2> QED BY <2>1 DEF IsGoing
<1> QED BY <1>1, <1>7, <1>8, WantedHandled

LEMMA WantedGoesOn == ASSUME SlackShape, WantedAll, (RecordsFile \/ FileFails) \/ FetchesThread PROVE WantedAll'
<1> USE DEF SlackShape, WantedAll
<1>1. /\ handling.at \in {"write", "thread"} /\ handling.items # <<>> /\ HasRow(First.ts) /\ First = ItemOf(1)
      /\ UNCHANGED <<talk, said, events, rows, missed, behind>>
  BY GoesOnTakes
<1>2. \A ts \in TimeStamps : Wanting(ts)' <=> Wanting(ts)
  BY <1>1 DEF Wanting, Saying, HasRow
<1>3. 1 \in InHand /\ First.ts \in DOMAIN said
  BY <1>1, FirstFits
<1>4. ASSUME handling'.at = "thread" /\ handling'.live = handling.live /\ InHand' = InHand /\ \A k : ItemOf(k)' = ItemOf(k)
      PROVE  WantedAll'
  <2>1. ToRecord' = ToRecord
    BY <1>1, <1>4 DEF ToRecord
  <2>2. WantedFirst'
    BY <1>1, <1>2, <1>4, <2>1 DEF WantedFirst
  <2>3. \A ts \in TimeStamps : IsGoing(ts) => IsGoing(ts)'
    BY <1>4 DEF IsGoing
  <2> QED BY <1>1, <2>2, <2>3, WantedHandled
<1>5. ASSUME NEW m, ThreadTaken(m), m = 0 \/ First.replies PROVE WantedAll'
  <2> DEFINE n == Len(handling.items)
  <2>1. /\ m \in Nat /\ InHand' = 1..(m + n - 1) /\ handling'.at = "next" /\ handling'.live = handling.live
        /\ \A k \in 1..m : ItemOf(k)'.thread = First.ts
        /\ \A k \in (m + 1)..(m + n - 1) : k - m + 1 \in InHand /\ k - m + 1 # 1 /\ ItemOf(k)' = ItemOf(k - m + 1)
        /\ \A k \in InHand : k # 1 => k + m - 1 \in InHand' /\ k + m - 1 > m /\ ItemOf(k + m - 1)' = ItemOf(k)
    BY <1>5 DEF ThreadTaken
  <2>2. n \in Nat /\ InHand = 1..n
    BY HandlingFacts
  <2> HIDE DEF n
  <2>3. First.ts # 0
    BY <1>3, SaidFacts
  <2>4. m > 0 => ~handling.live
    BY <1>1, <1>3, <1>5, <2>1 DEF HandlingShape, ItemsFit
  <2>5. \A ts \in TimeStamps : Wanting(ts) /\ IsGoing(ts) => IsGoing(ts)'
    <3> SUFFICES ASSUME NEW ts \in TimeStamps, Wanting(ts), NEW k \in InHand, ItemOf(k).ts = ts PROVE IsGoing(ts)'
      BY DEF IsGoing
    <3>1. k # 1
      BY <1>1 DEF Wanting
    <3>2. k + m - 1 \in InHand' /\ ItemOf(k + m - 1)'.ts = ts
      BY <2>1, <3>1
    <3> QED BY <3>2 DEF IsGoing
  <2>6. WantedFirst'
    <3> SUFFICES ASSUME NEW ts \in TimeStamps, Wanting(ts), NEW k \in InHand', ItemOf(k)'.ts > ts,
                        IF handling.live THEN ~behind ELSE ItemOf(k)'.thread = 0
                 PROVE  \E j \in 1..(k - 1) : ItemOf(j)'.ts = ts
      BY <1>1, <1>2, <2>1 DEF WantedFirst, ToRecord
    <3>1. ~(k \in 1..m)
      BY <2>1, <2>3, <2>4
    <3>2. k \in (m + 1)..(m + n - 1)
      BY <2>1, <2>2, <3>1
    <3>3. PICK i \in InHand : i = k - m + 1 /\ i # 1 /\ ItemOf(k)' = ItemOf(i)
      BY <2>1, <3>2
    <3>4. i \in ToRecord
      BY <2>2, <3>3 DEF ToRecord
    <3>5. PICK j \in 1..(i - 1) : ItemOf(j).ts = ts
      BY <3>3, <3>4 DEF WantedFirst
    <3>6. j \in InHand /\ j # 1
      BY <1>1, <2>2, <3>5 DEF Wanting
    <3>7. ItemOf(j + m - 1)'.ts = ts /\ j + m - 1 > m
      BY <2>1, <3>5, <3>6
    <3>8. j + m - 1 \in 1..(k - 1)
      BY <2>1, <2>2, <3>2, <3>3, <3>5, <3>7
    <3> QED BY <3>7, <3>8
  <2> QED BY <1>1, <2>5, <2>6, WantedHandled
<1> QED BY <1>4, <1>5, GoesOnTakes

LEMMA WantedDone == ASSUME SlackShape, WantedAll, Handled PROVE WantedAll'
<1>1. handling.at = "next" /\ handling.items = <<>> /\ handling' = AtRest /\ UNCHANGED <<talk, said, events, rows, missed, behind>>
  BY DEF Handled, channel, theRecord, notes
<1>2. InHand = {}
  BY <1>1 DEF InHand
<1>3. \A ts \in TimeStamps : ~IsGoing(ts)
  BY <1>2 DEF IsGoing
<1>4. ToRecord' = {}
  BY <1>1 DEF AtRest, ToRecord, InHand
<1>5. WantedFirst'
  BY <1>4 DEF WantedFirst
<1> QED BY <1>1, <1>3, <1>5, WantedHandled

\* A row that changes is written, and its file is next.
LEMMA ChangesTake ==
  ASSUME SlackShape, handling = AtRest, NEW ts \in TimeStamps, NEW changed, NEW row, HasRow(ts) => row \in SlackRows,
         Changes(ts, changed, row)
  PROVE  /\ ToRecord' = {} /\ \A t \in TimeStamps : t # ts => rows'[t] = rows[t]
         /\ \A t \in TimeStamps : HasRow(t)' <=> HasRow(t)
         /\ HasRow(ts) => rows'[ts] = IF changed THEN row ELSE rows[ts]
         /\ UNCHANGED <<talk, said, socket, posting, unsure, missed, behind>>
<1> USE DEF SlackShape
<1>1. UNCHANGED <<talk, said, socket, posting, unsure, missed, behind>>
  BY DEF Changes, channel, notes
<1>2. CASE HasRow(ts) /\ changed
  <2> DEFINE item == Quietly(Item(ts, 0, 0, NotSaid))
  <2>1. rows' = [rows EXCEPT ![ts] = row] /\ handling' = [AtRest EXCEPT !.at = "write", !.items = <<item>>] /\ row \in SlackRows
    BY <1>2 DEF Changes
  <2> HIDE DEF item
  <2>2. /\ rows'[ts] = row /\ HasRow(ts)'
        /\ \A t \in TimeStamps \ {ts} : rows'[t] = rows[t] /\ (HasRow(t)' <=> HasRow(t))
    BY <2>1, RowWritten
  <2>3. handling'.at = "write" /\ handling'.items = <<item>>
    BY <2>1 DEF AtRest
  <2>4. ToRecord' = {}
    BY <2>3 DEF ToRecord, InHand
  <2>5. \A t \in TimeStamps : HasRow(t)' <=> HasRow(t)
    <3> SUFFICES ASSUME NEW t \in TimeStamps PROVE HasRow(t)' <=> HasRow(t)
      OBVIOUS
    <3>1. CASE t = ts
      BY <1>2, <2>2, <3>1 DEF HasRow
    <3>2. CASE t # ts
      BY <2>2, <3>2
    <3> QED BY <3>1, <3>2
  <2> QED BY <1>1, <1>2, <2>2, <2>4, <2>5
<1>3. CASE ~(HasRow(ts) /\ changed)
  <2>1. rows' = rows /\ handling' = handling
    BY <1>3 DEF Changes
  <2>2. ToRecord' = ToRecord /\ ToRecord = {}
    BY <2>1, AtRestFits DEF ToRecord, InHand
  <2> QED BY <1>1, <1>3, <2>1, <2>2 DEF HasRow
<1> QED BY <1>2, <1>3

\* What an event about a message recorded makes of its row.
LEMMA ChangeTakes ==
  ASSUME SlackShape, TakesDeleted \/ TakesReacted \/ TakesUnreacted
  PROVE  LET e == events[1] IN
         /\ handling = AtRest /\ events # <<>> /\ events' = Tail(events) /\ e.ts \in DOMAIN said /\ e.ts \in TimeStamps
         /\ e.type \in {"deleted", "reacted", "unreacted"} /\ ToRecord' = {}
         /\ UNCHANGED <<talk, said, socket, posting, unsure, missed, behind>>
         /\ \A t \in TimeStamps : t # e.ts => rows'[t] = rows[t]
         /\ \A t \in TimeStamps : HasRow(t)' <=> HasRow(t)
         /\ HasRow(e.ts) =>
              /\ rows'[e.ts].thread = rows[e.ts].thread /\ rows'[e.ts].text = rows[e.ts].text
              /\ rows'[e.ts].deleted <=> (rows[e.ts].deleted \/ e.type = "deleted")
              /\ \A who : who \in rows'[e.ts].reacted <=>
                            IF e.type = "deleted" \/ who # e.x THEN who \in rows[e.ts].reacted ELSE e.type = "reacted"
<1> USE DEF SlackShape
<1>0. handling = AtRest /\ events # <<>> /\ events' = Tail(events)
  BY DEF TakesDeleted, TakesReacted, TakesUnreacted, TakesEvent
<1>1. CASE TakesDeleted
  <2>1. TakesEvent("deleted")
    BY <1>1 DEF TakesDeleted
  <2> DEFINE e == events[1]
  <2>2. Head(events) = e /\ e.ts \in DOMAIN said /\ e.ts \in TimeStamps /\ e.type = "deleted"
    BY <2>1, HeadFits
  <2> HIDE DEF e
  <2>3. PICK ts \in TimeStamps : ts = e.ts
    BY <2>2
  <2> DEFINE row == [rows[ts] EXCEPT !.deleted = TRUE]
             changed == ~rows[ts].deleted
  <2>4. Changes(ts, changed, row)
    BY <1>1, <2>2, <2>3 DEF TakesDeleted
  <2>5. HasRow(ts) => row \in SlackRows /\ row.thread = rows[ts].thread /\ row.text = rows[ts].text /\ row.deleted /\ row.reacted = rows[ts].reacted
    BY ChangedRow
  <2> HIDE DEF row
  <2>6. /\ ToRecord' = {} /\ \A t \in TimeStamps : t # ts => rows'[t] = rows[t]
        /\ \A t \in TimeStamps : HasRow(t)' <=> HasRow(t)
        /\ HasRow(ts) => rows'[ts] = IF changed THEN row ELSE rows[ts]
        /\ UNCHANGED <<talk, said, socket, posting, unsure, missed, behind>>
    <3> HIDE DEF changed
    <3> QED BY <1>0, <2>4, <2>5, ChangesTake
  <2>7. HasRow(ts) => /\ rows'[ts].thread = rows[ts].thread /\ rows'[ts].text = rows[ts].text
                      /\ rows'[ts].deleted /\ rows'[ts].reacted = rows[ts].reacted
    BY <2>5, <2>6
  <2> QED BY <1>0, <2>2, <2>3, <2>6, <2>7 DEF e
<1>2. CASE TakesReacted
  <2>1. TakesEvent("reacted")
    BY <1>2 DEF TakesReacted
  <2> DEFINE e == events[1]
  <2>2. Head(events) = e /\ e.ts \in DOMAIN said /\ e.ts \in TimeStamps /\ e.type = "reacted" /\ EventFits(e)
    BY <2>1, HeadFits
  <2>x. e.x \in Speakers
    BY <2>2 DEF EventFits
  <2> HIDE DEF e
  <2>3. PICK ts \in TimeStamps : ts = e.ts
    BY <2>2
  <2> DEFINE S == rows[ts].reacted \cup {e.x}
             row == [rows[ts] EXCEPT !.reacted = S]
             changed == e.x \notin rows[ts].reacted
  <2>4. Changes(ts, changed, row)
    BY <1>2, <2>2, <2>3 DEF TakesReacted
  <2>s. HasRow(ts) => S \in SUBSET Speakers
    <3>1. HasRow(ts) => rows[ts].reacted \in SUBSET Speakers
      BY ChangedRow
    <3> QED BY <2>x, <3>1
  <2> HIDE DEF S
  <2>5. HasRow(ts) => /\ row \in SlackRows /\ row.thread = rows[ts].thread /\ row.text = rows[ts].text
                      /\ row.deleted = rows[ts].deleted /\ row.reacted = S
    BY <2>s, ChangedRow
  <2> HIDE DEF row
  <2>6. /\ ToRecord' = {} /\ \A t \in TimeStamps : t # ts => rows'[t] = rows[t]
        /\ \A t \in TimeStamps : HasRow(t)' <=> HasRow(t)
        /\ HasRow(ts) => rows'[ts] = IF changed THEN row ELSE rows[ts]
        /\ UNCHANGED <<talk, said, socket, posting, unsure, missed, behind>>
    <3> HIDE DEF changed
    <3> QED BY <1>0, <2>4, <2>5, ChangesTake
  <2>7. HasRow(ts) => /\ rows'[ts].thread = rows[ts].thread /\ rows'[ts].text = rows[ts].text
                      /\ rows'[ts].deleted = rows[ts].deleted
                      /\ \A who : who \in rows'[ts].reacted <=> IF who # e.x THEN who \in rows[ts].reacted ELSE TRUE
    BY <2>5, <2>6 DEF S
  <2> QED BY <1>0, <2>2, <2>3, <2>6, <2>7 DEF e
<1>3. CASE TakesUnreacted
  <2>1. TakesEvent("unreacted")
    BY <1>3 DEF TakesUnreacted
  <2> DEFINE e == events[1]
  <2>2. Head(events) = e /\ e.ts \in DOMAIN said /\ e.ts \in TimeStamps /\ e.type = "unreacted"
    BY <2>1, HeadFits
  <2> HIDE DEF e
  <2>3. PICK ts \in TimeStamps : ts = e.ts
    BY <2>2
  <2> DEFINE S == rows[ts].reacted \ {e.x}
             row == [rows[ts] EXCEPT !.reacted = S]
             changed == e.x \in rows[ts].reacted
  <2>4. Changes(ts, changed, row)
    BY <1>3, <2>2, <2>3 DEF TakesUnreacted
  <2>s. HasRow(ts) => S \in SUBSET Speakers
    <3>1. HasRow(ts) => rows[ts].reacted \in SUBSET Speakers
      BY ChangedRow
    <3> QED BY <3>1
  <2> HIDE DEF S
  <2>5. HasRow(ts) => /\ row \in SlackRows /\ row.thread = rows[ts].thread /\ row.text = rows[ts].text
                      /\ row.deleted = rows[ts].deleted /\ row.reacted = S
    BY <2>s, ChangedRow
  <2> HIDE DEF row
  <2>6. /\ ToRecord' = {} /\ \A t \in TimeStamps : t # ts => rows'[t] = rows[t]
        /\ \A t \in TimeStamps : HasRow(t)' <=> HasRow(t)
        /\ HasRow(ts) => rows'[ts] = IF changed THEN row ELSE rows[ts]
        /\ UNCHANGED <<talk, said, socket, posting, unsure, missed, behind>>
    <3> HIDE DEF changed
    <3> QED BY <1>0, <2>4, <2>5, ChangesTake
  <2>7. HasRow(ts) => /\ rows'[ts].thread = rows[ts].thread /\ rows'[ts].text = rows[ts].text
                      /\ rows'[ts].deleted = rows[ts].deleted
                      /\ \A who : who \in rows'[ts].reacted <=> IF who # e.x THEN who \in rows[ts].reacted ELSE FALSE
    BY <2>5, <2>6 DEF S
  <2> QED BY <1>0, <2>2, <2>3, <2>6, <2>7 DEF e
<1> QED BY <1>1, <1>2, <1>3

LEMMA WantedChanges == ASSUME SlackShape, WantedAll, TakesDeleted \/ TakesReacted \/ TakesUnreacted PROVE WantedAll'
<1>1. /\ handling = AtRest /\ events # <<>> /\ events' = Tail(events) /\ UNCHANGED <<talk, said, missed, behind>>
      /\ events[1].type \in {"deleted", "reacted", "unreacted"} /\ ToRecord' = {}
      /\ \A t \in TimeStamps : t # events[1].ts => rows'[t] = rows[t]
      /\ \A t \in TimeStamps : HasRow(t)' <=> HasRow(t)
      /\ HasRow(events[1].ts) => rows'[events[1].ts].thread = rows[events[1].ts].thread
  BY ChangeTakes
<1>2. \A t \in TimeStamps : (HasRow(t)' <=> HasRow(t)) /\ (HasRow(t) => rows'[t].thread = rows[t].thread)
  BY <1>1
<1>3. missed \subseteq missed' /\ (events[1].type = "message" => events[1].ts \in missed')
  BY <1>1
<1> QED BY <1>1, <1>2, <1>3, WantedDrops

LEMMA WantedFails == ASSUME SlackShape, WantedAll, FillFails \/ EventFails PROVE WantedAll'
<1> USE DEF SlackShape
<1>1. /\ handling = AtRest /\ events # <<>> /\ events' = Tail(events)
      /\ UNCHANGED <<talk, said, behind, rows, handling>>
  BY DEF FillFails, EventFails, TakesEvent, channel, theRecord, notes
<1>2. ToRecord' = {}
  BY <1>1, AtRestFits DEF ToRecord, InHand
<1>3. missed \subseteq missed' /\ (events[1].type = "message" => events[1].ts \in missed')
  <2>1. Head(events) = events[1]
    BY <1>1, HeadTaken DEF SlackTypes
  <2>2. CASE FillFails
    BY <2>1, <2>2 DEF FillFails, TakesEvent, notes
  <2>3. CASE EventFails
    BY <2>1, <2>3 DEF EventFails
  <2> QED BY <2>2, <2>3
<1>4. \A t \in TimeStamps : (HasRow(t)' <=> HasRow(t)) /\ (HasRow(t) => rows'[t].thread = rows[t].thread)
  BY <1>1 DEF HasRow
<1> QED BY <1>1, <1>2, <1>3, <1>4, WantedDrops

LEMMA WantedRow == ASSUME SlackShape, WantedAll, RecordsRow PROVE WantedAll'
<1> USE DEF SlackShape, WantedAll
<1> DEFINE row == RowWith(First)
<1>1. /\ handling.items # <<>> /\ handling.at = "next" /\ rows' = [rows EXCEPT ![First.ts] = row]
      /\ handling'.at = "write" /\ handling'.live = handling.live
      /\ InHand' = InHand /\ (\A k : ItemOf(k)' = ItemOf(k))
      /\ UNCHANGED <<talk, said, events, behind>>
  BY RowTakes
<1>2. /\ First \in Items /\ First = ItemOf(1) /\ 1 \in InHand /\ First.ts \in DOMAIN said /\ First.ts \in TimeStamps /\ First.ts \in Nat
  BY <1>1, FirstFits
<1>3. /\ row \in SlackRows /\ (HasRow(First.ts) => row.thread = rows[First.ts].thread) /\ (~HasRow(First.ts) => row.thread = First.thread)
  BY <1>2, RecordedRow
<1> HIDE DEF row
<1>4. PICK at \in TimeStamps : at = First.ts
  BY <1>2
<1>5. /\ rows'[at] = row /\ HasRow(at)'
      /\ \A t \in TimeStamps \ {at} : rows'[t] = rows[t] /\ (HasRow(t)' <=> HasRow(t))
      /\ \A t \in TimeStamps : HasRow(t) => HasRow(t)'
  BY <1>1, <1>3, <1>4, RowWritten
<1>6. missed' = missed \cup PassedOver(at)
  BY <1>4 DEF RecordsRow
<1>7. \A ts \in TimeStamps : Wanting(ts)' => Wanting(ts)
  BY <1>1, <1>5, <1>6, WantingStays
<1>8. 1 \in ToRecord
  BY <1>1, <1>2 DEF ToRecord
<1>9. \A ts \in TimeStamps : IsGoing(ts)' <=> IsGoing(ts)
  BY <1>1 DEF IsGoing
<1>10. \A ts \in TimeStamps : EventFor(ts)' <=> EventFor(ts)
  BY <1>1 DEF EventFor, Gives
<1>11. WantedComes'
  BY <1>1, <1>7, <1>9, <1>10 DEF WantedComes
<1>12. WantedFirst'
  <2>1. ToRecord' \subseteq ToRecord
    BY <1>1 DEF ToRecord
  <2> QED BY <1>1, <1>7, <2>1 DEF WantedFirst
<1>13. ASSUME NEW ts \in TimeStamps, Wanting(ts)', row.thread = 0, ~HasRow(at) PROVE at < ts
  <2>1. Wanting(ts) /\ ts # at /\ ts \in DOMAIN said /\ Saying(ts).thread = 0 /\ ~HasRow(ts) /\ ts \notin missed'
    BY <1>1, <1>5, <1>7, <1>13 DEF Wanting, Saying
  <2>2. ts \in Nat /\ at \in Nat
    BY SaidFacts
  <2> SUFFICES ASSUME ts < at PROVE FALSE
    BY <2>1, <2>2
  <2>3. ItemOf(1).thread = 0 /\ ItemOf(1).ts > ts
    BY <1>2, <1>3, <1>4, <1>13, <2>2
  <2>4. CASE handling.live /\ behind
    <3>1. ts \in PassedOver(at)
      BY <1>5, <1>13, <2>1, <2>4 DEF PassedOver
    <3> QED BY <1>6, <2>1, <3>1
  <2>5. CASE ~(handling.live /\ behind)
    <3>1. \E j \in 1..(1 - 1) : ItemOf(j).ts = ts
      BY <1>8, <2>1, <2>3, <2>5 DEF WantedFirst
    <3> QED BY <3>1
  <2> QED BY <2>4, <2>5
<1>14. WantedLater'
  <2> SUFFICES ASSUME NEW ts \in TimeStamps, Wanting(ts)', NEW t \in TimeStamps, HasRow(t)', rows'[t].thread = 0 PROVE t < ts
    BY DEF WantedLater
  <2>1. CASE t # at
    BY <1>5, <1>7, <2>1 DEF WantedLater
  <2>2. CASE t = at /\ HasRow(at)
    BY <1>3, <1>4, <1>5, <1>7, <2>2 DEF WantedLater
  <2>3. CASE t = at /\ ~HasRow(at)
    BY <1>5, <1>13, <2>3
  <2> QED BY <2>1, <2>2, <2>3
<1> QED BY <1>11, <1>12, <1>14

LEMMA NextWanted == ASSUME SlackShape, SlackShape', WantedAll, SlackNext PROVE WantedAll'
<1>1. CASE SlackSays \/ NatsumiPosts
  <2>1. \E by : Says(by) /\ UNCHANGED <<talk, socket, handling, rows, missed, behind>>
    BY <1>1 DEF SlackSays, NatsumiPosts, theRecord
  <2> QED BY <2>1, WantedSays
<1>2. CASE RecordOwn
  <2> DEFINE e == Event("message", posting, 0)
  <2>1. posting \in Nat
    BY <1>2, SaidFacts DEF RecordOwn, SlackShape, SlackTypes
  <2>2. e \in SlackEvents
    BY <2>1 DEF Event, SlackEvents
  <2>3. events' = Append(events, e) /\ UNCHANGED <<talk, said, handling, rows, missed, behind>>
    BY <1>2 DEF RecordOwn, channel, theRecord
  <2> HIDE DEF e
  <2> QED BY <2>2, <2>3, WantedAside
<1>3. ASSUME NEW ts \in DOMAIN said, SlackEdits(ts) \/ SlackDeletes(ts) \/ \E who \in Speakers : SlackReacts(ts, who)
      PROVE  WantedAll'
  <2>1. PICK message, type, x : Altered(ts, message, type, x)
    BY <1>3 DEF SlackEdits, SlackDeletes, SlackReacts
  <2>2. /\ UNCHANGED <<talk, handling, rows, missed, behind>> /\ said' = [said EXCEPT ![ts] = message] /\ ~said[ts].deleted
    BY <2>1 DEF Altered, theRecord
  <2>3. /\ DOMAIN said' = DOMAIN said /\ \A t \in DOMAIN said : ~said'[t].deleted => ~said[t].deleted
    BY <2>2 DEF SlackShape, SlackTypes
  <2>4. events' = events \/ \E e \in SlackEvents : events' = Append(events, e)
    <3>1. events' \in Seq(SlackEvents) /\ events \in Seq(SlackEvents)
      BY DEF SlackShape, SlackTypes
    <3>2. events' = events \/ events' = Append(events, Event(type, ts, x))
      BY <2>1 DEF Altered, SlackSends
    <3> DEFINE e == Event(type, ts, x)
    <3>3. ASSUME events' = Append(events, e) PROVE e \in SlackEvents
      <4> HIDE DEF e
      <4>1. Len(events) \in Nat /\ Len(events') = Len(events) + 1 /\ events'[Len(events) + 1] = e
        BY <3>1, <3>3
      <4>2. Len(events) + 1 \in 1..Len(events')
        BY <4>1
      <4> QED BY <3>1, <4>1, <4>2
    <3> QED BY <3>2, <3>3
  <2> QED BY <2>2, <2>3, <2>4, WantedAside
<1>4. ASSUME NEW i \in DOMAIN events, SlackRepeats(i) PROVE WantedAll'
  <2>1. events[i] \in SlackEvents
    BY DEF SlackShape, SlackTypes
  <2>2. events' = Append(events, events[i]) /\ UNCHANGED <<talk, said, handling, rows, missed, behind>>
    BY <1>4 DEF SlackRepeats, channel, theRecord
  <2> QED BY <2>1, <2>2, WantedAside
<1>5. CASE SlackStarts \/ SlackConnects
  <2>1. UNCHANGED <<talk, said, handling, rows, missed, behind>>
    BY <1>5 DEF SlackStarts, SlackConnects, theRecord, notes
  <2> DEFINE e == Event("fill", 0, 0)
  <2>2. e \in SlackEvents
    BY DEF Event, SlackEvents
  <2>3. events' = events \/ events' = Append(events, e)
    BY <1>5 DEF SlackStarts, SlackConnects
  <2> HIDE DEF e
  <2> QED BY <2>1, <2>2, <2>3, WantedAside
<1>6. CASE SocketCloses \/ SlackDies
  BY <1>6, WantedBehind
<1>7. CASE TakesMessage \/ TakesChanged
  BY <1>7, WantedOne
<1>8. CASE TakesDeleted \/ TakesReacted \/ TakesUnreacted
  BY <1>8, WantedChanges
<1>9. CASE TakesFill
  BY <1>9, WantedFill
<1>10. CASE FillFails \/ EventFails
  BY <1>10, WantedFails
<1>11. CASE FetchesParent \/ ParentFails
  BY <1>11, WantedParents
<1>12. CASE RecordsRow
  BY <1>12, WantedRow
<1>13. CASE RecordsFile \/ FileFails \/ FetchesThread
  BY <1>13, WantedGoesOn
<1>14. CASE Handled
  BY <1>14, WantedDone
<1> QED BY <1>1, <1>2, <1>3, <1>4, <1>5, <1>6, <1>7, <1>8, <1>9, <1>10, <1>11, <1>12, <1>13, <1>14 DEF SlackNext

-----------------------------------------------------------------------------
(*               what is recorded comes to read as it does in Slack        *)

\* What is followed of a message: its text, whether it is deleted, and whether one of the speakers reacted.
Aspects == {"text", "deleted", "reacted"}
Whoever == Speakers \cup NotSaid
Yes(b) == IF b THEN 1 ELSE 0

TellsOf(e, ts, kind, who) ==
  e.ts = ts /\ \/ kind = "text" /\ Gives(e)
               \/ kind = "deleted" /\ e.type \in {"message", "changed", "deleted"}
               \/ kind = "reacted" /\ e.type \in {"reacted", "unreacted"} /\ e.x = who
After(e, kind) == IF kind = "text" THEN e.x ELSE Yes(e.type = kind)
ItemTells(i, kind) == kind = "reacted" => i.reacted # NotSaid
ItemSays(i, kind, who) == IF kind = "text" THEN i.text ELSE Yes(kind = "reacted" /\ who \in i.reacted)
RowSays(ts, kind, who) ==
  IF kind = "text" THEN rows[ts].text ELSE Yes(IF kind = "deleted" THEN rows[ts].deleted ELSE who \in ReactedOf(ts))
Holds(ts, kind, who) ==
  IF kind = "text" THEN said[ts].text ELSE Yes(IF kind = "deleted" THEN said[ts].deleted ELSE who \in said[ts].reacted)

\* With no event left that tells of it, what is still to be recorded says what Slack holds, or else the row does.
Agrees(ts, kind, who) ==
  /\ \A k \in ToRecord : ItemOf(k).ts = ts /\ ItemTells(ItemOf(k), kind) => ItemSays(ItemOf(k), kind, who) = Holds(ts, kind, who)
  /\ (kind = "reacted" \/ HasRow(ts)) /\ (\A k \in ToRecord : ItemOf(k).ts = ts => ~ItemTells(ItemOf(k), kind))
       => RowSays(ts, kind, who) = Holds(ts, kind, who)
ComesTrue(ts, kind, who) ==
  /\ \A i \in DOMAIN events :
       TellsOf(events[i], ts, kind, who) /\ (\A j \in DOMAIN events : j > i => ~TellsOf(events[j], ts, kind, who))
         => After(events[i], kind) = Holds(ts, kind, who)
  /\ (\A i \in DOMAIN events : ~TellsOf(events[i], ts, kind, who)) => Agrees(ts, kind, who)

Watched(ts, kind) == ts \in DOMAIN said /\ ts \notin unsure /\ (kind = "reacted" => ~said[ts].deleted)
AllCome == \A ts \in TimeStamps, kind \in Aspects, who \in Whoever : Watched(ts, kind) => ComesTrue(ts, kind, who)

\* A message is there before what is said of it.
FirstOf(ts) ==
  \E j \in DOMAIN events : events[j].type = "message" /\ events[j].ts = ts /\ \A i \in 1..(j - 1) : events[i].ts # ts
FirstComes == \A ts \in TimeStamps : ts \in DOMAIN said /\ ts \notin unsure /\ ~HasRow(ts) => IsGoing(ts) \/ FirstOf(ts)

LEMMA ComesQueued ==
  ASSUME events \in Seq(SlackEvents), NEW e \in SlackEvents, events' = Append(events, e), NEW ts, NEW kind, NEW who,
         ComesTrue(ts, kind, who), ~TellsOf(e, ts, kind, who), Holds(ts, kind, who)' = Holds(ts, kind, who),
         Agrees(ts, kind, who) => Agrees(ts, kind, who)'
  PROVE  ComesTrue(ts, kind, who)'
<1>1. /\ Len(events) \in Nat /\ DOMAIN events = 1..Len(events) /\ DOMAIN events' = 1..(Len(events) + 1)
      /\ \A i \in DOMAIN events : events'[i] = events[i]
      /\ events'[Len(events) + 1] = e
  BY Queued
<1> DEFINE T(x) == TellsOf(x, ts, kind, who)
<1>2. \A x : TellsOf(x, ts, kind, who)' <=> T(x')
  BY DEF TellsOf, Gives
<1> HIDE DEF T
<1>3. ~T(e) /\ \A i \in DOMAIN events : T(events'[i]) <=> T(events[i])
  BY <1>1 DEF T
<1>4. \A i \in DOMAIN events' : T(events'[i]) => i \in DOMAIN events
  BY <1>1, <1>3
<1>5. DOMAIN events \subseteq DOMAIN events'
  BY <1>1
<1>6. /\ \A i \in DOMAIN events : T(events[i]) /\ (\A j \in DOMAIN events : j > i => ~T(events[j]))
             => After(events[i], kind) = Holds(ts, kind, who)
      /\ (\A i \in DOMAIN events : ~T(events[i])) => Agrees(ts, kind, who)
  BY DEF ComesTrue, T
<1>7. ASSUME NEW i \in DOMAIN events', T(events'[i]), \A j \in DOMAIN events' : j > i => ~T(events'[j])
      PROVE  After(events[i], kind)' = Holds(ts, kind, who)'
  <2>1. i \in DOMAIN events /\ events'[i] = events[i] /\ T(events[i])
    BY <1>1, <1>4, <1>7
  <2>2. \A j \in DOMAIN events : j > i => ~T(events[j])
    BY <1>3, <1>5, <1>7
  <2>3. After(events[i], kind) = Holds(ts, kind, who)
    BY <1>6, <2>1, <2>2
  <2> QED BY <2>1, <2>3 DEF After
<1>8. ASSUME \A i \in DOMAIN events' : ~T(events'[i]) PROVE Agrees(ts, kind, who)'
  BY <1>3, <1>5, <1>6, <1>8
<1> QED BY <1>2, <1>7, <1>8 DEF ComesTrue

LEMMA ComesTold ==
  ASSUME events \in Seq(SlackEvents), NEW e \in SlackEvents, events' = Append(events, e), NEW ts, NEW kind, NEW who,
         TellsOf(e, ts, kind, who), After(e, kind) = Holds(ts, kind, who)'
  PROVE  ComesTrue(ts, kind, who)'
<1>1. PICK n : n = Len(events) + 1
  OBVIOUS
<1>2. /\ Len(events) \in Nat /\ DOMAIN events' = 1..n /\ events'[n] = e /\ n \in Nat /\ n \in DOMAIN events'
  BY <1>1, Queued
<1>3. TellsOf(events[n], ts, kind, who)' /\ After(events[n], kind)' = Holds(ts, kind, who)'
  BY <1>2 DEF TellsOf, Gives, After
<1>4. ASSUME NEW i \in DOMAIN events', \A j \in DOMAIN events' : j > i => ~TellsOf(events[j], ts, kind, who)' PROVE i = n
  <2>1. ~(n > i)
    BY <1>2, <1>3, <1>4
  <2> QED BY <1>2, <2>1
<1>5. \A i \in DOMAIN events' : (\A j \in DOMAIN events' : j > i => ~TellsOf(events[j], ts, kind, who)')
             => After(events[i], kind)' = Holds(ts, kind, who)'
  BY <1>3, <1>4
<1>6. ~(\A i \in DOMAIN events' : ~TellsOf(events[i], ts, kind, who)')
  BY <1>2, <1>3
<1> QED BY <1>5, <1>6 DEF ComesTrue

LEMMA ComesTaken ==
  ASSUME events \in Seq(SlackEvents), events # <<>>, events' = Tail(events), NEW ts, NEW kind, NEW who,
         ComesTrue(ts, kind, who), Holds(ts, kind, who)' = Holds(ts, kind, who),
         ~TellsOf(events[1], ts, kind, who) /\ Agrees(ts, kind, who) => Agrees(ts, kind, who)',
         TellsOf(events[1], ts, kind, who) /\ After(events[1], kind) = Holds(ts, kind, who) => Agrees(ts, kind, who)'
  PROVE  ComesTrue(ts, kind, who)'
<1>1. /\ Len(events) \in Nat /\ DOMAIN events = 1..Len(events) /\ DOMAIN events' = 1..(Len(events) - 1) /\ 1 \in DOMAIN events
      /\ \A i \in DOMAIN events' : i + 1 \in DOMAIN events /\ events'[i] = events[i + 1]
      /\ \A i \in DOMAIN events : i # 1 => i - 1 \in DOMAIN events' /\ events'[i - 1] = events[i]
  BY HeadTaken
<1> DEFINE T(x) == TellsOf(x, ts, kind, who)
<1>2. \A x : TellsOf(x, ts, kind, who)' <=> T(x')
  BY DEF TellsOf, Gives
<1> HIDE DEF T
<1>3. /\ \A i \in DOMAIN events : T(events[i]) /\ (\A j \in DOMAIN events : j > i => ~T(events[j]))
             => After(events[i], kind) = Holds(ts, kind, who)
      /\ (\A i \in DOMAIN events : ~T(events[i])) => Agrees(ts, kind, who)
  BY DEF ComesTrue, T
<1>4. ASSUME NEW i \in DOMAIN events', T(events'[i]), \A j \in DOMAIN events' : j > i => ~T(events'[j])
      PROVE  After(events[i], kind)' = Holds(ts, kind, who)'
  <2>1. i + 1 \in DOMAIN events /\ events'[i] = events[i + 1] /\ T(events[i + 1])
    BY <1>1, <1>4
  <2>2. ASSUME NEW j \in DOMAIN events, j > i + 1 PROVE ~T(events[j])
    <3>1. j # 1 /\ j - 1 > i
      BY <1>1, <2>2
    <3>2. j - 1 \in DOMAIN events' /\ events'[j - 1] = events[j]
      BY <1>1, <3>1
    <3> QED BY <1>4, <3>1, <3>2
  <2>3. After(events[i + 1], kind) = Holds(ts, kind, who)
    BY <1>3, <2>1, <2>2
  <2> QED BY <2>1, <2>3 DEF After
<1>5. ASSUME \A i \in DOMAIN events' : ~T(events'[i]) PROVE Agrees(ts, kind, who)'
  <2>1. \A i \in DOMAIN events : i # 1 => ~T(events[i])
    BY <1>1, <1>5
  <2>2. CASE ~T(events[1])
    <3>1. \A i \in DOMAIN events : ~T(events[i])
      BY <2>1, <2>2
    <3> QED BY <1>3, <2>2, <3>1 DEF T
  <2>3. CASE T(events[1])
    <3>1. \A j \in DOMAIN events : j > 1 => ~T(events[j])
      BY <1>1, <2>1
    <3>2. After(events[1], kind) = Holds(ts, kind, who)
      BY <1>1, <1>3, <2>3, <3>1
    <3> QED BY <2>3, <3>2 DEF T
  <2> QED BY <2>2, <2>3
<1> QED BY <1>2, <1>4, <1>5 DEF ComesTrue

LEMMA ComesHandled ==
  ASSUME events' = events, NEW ts, NEW kind, NEW who, ComesTrue(ts, kind, who), Holds(ts, kind, who)' = Holds(ts, kind, who),
         Agrees(ts, kind, who) => Agrees(ts, kind, who)'
  PROVE  ComesTrue(ts, kind, who)'
  BY DEF ComesTrue, TellsOf, Gives, After

LEMMA SettledStays ==
  ASSUME UNCHANGED <<handling, rows>>, NEW ts, NEW kind, NEW who, Holds(ts, kind, who)' = Holds(ts, kind, who), Agrees(ts, kind, who)
  PROVE  Agrees(ts, kind, who)'
<1>1. ToRecord' = ToRecord /\ \A k : ItemOf(k)' = ItemOf(k)
  BY DEF ToRecord, InHand, ItemOf
<1>2. (HasRow(ts)' <=> HasRow(ts)) /\ RowSays(ts, kind, who)' = RowSays(ts, kind, who)
  BY DEF HasRow, RowSays, ReactedOf, Yes
<1> QED BY <1>1, <1>2 DEF Agrees, ItemTells, ItemSays, Yes

\* Something about one message comes, or is never heard.
LEMMA SentComes ==
  ASSUME SlackShape, AllCome, NEW ts \in TimeStamps, NEW kind \in Aspects, NEW who \in Whoever, Watched(ts, kind)',
         NEW type, NEW t, NEW x, Event(type, t, x) \in SlackEvents, SlackSends(type, t, x), unsure \subseteq unsure',
         UNCHANGED <<handling, rows>>, Watched(ts, kind),
         ts # t => Holds(ts, kind, who)' = Holds(ts, kind, who),
         ts = t => IF TellsOf(Event(type, t, x), ts, kind, who) THEN After(Event(type, t, x), kind) = Holds(ts, kind, who)'
                   ELSE Holds(ts, kind, who)' = Holds(ts, kind, who)
  PROVE  ComesTrue(ts, kind, who)'
<1> DEFINE e == Event(type, t, x)
<1>1. e.ts = t
  BY DEF Event
<1>2. ComesTrue(ts, kind, who) /\ events \in Seq(SlackEvents)
  BY DEF AllCome, SlackShape, SlackTypes
<1>3. CASE socket = "open"
  <2>1. events' = Append(events, e)
    BY <1>3 DEF SlackSends
  <2>2. CASE TellsOf(e, ts, kind, who)
    <3>1. ts = t /\ After(e, kind) = Holds(ts, kind, who)'
      BY <1>1, <2>2 DEF TellsOf
    <3> HIDE DEF e
    <3> QED BY <1>2, <2>1, <2>2, <3>1, ComesTold DEF e
  <2>3. CASE ~TellsOf(e, ts, kind, who)
    <3>1. Holds(ts, kind, who)' = Holds(ts, kind, who)
      BY <2>3
    <3>2. Agrees(ts, kind, who) => Agrees(ts, kind, who)'
      BY <3>1, SettledStays
    <3> HIDE DEF e
    <3> QED BY <1>2, <2>1, <2>3, <3>1, <3>2, ComesQueued DEF e
  <2> QED BY <2>2, <2>3
<1>4. CASE socket # "open"
  <2>1. events' = events /\ t \in unsure'
    BY <1>4 DEF SlackSends
  <2>2. ts # t
    BY <2>1 DEF Watched
  <2>3. Holds(ts, kind, who)' = Holds(ts, kind, who)
    BY <2>2
  <2>4. Agrees(ts, kind, who) => Agrees(ts, kind, who)'
    BY <2>3, SettledStays
  <2> QED BY <1>2, <2>1, <2>3, <2>4, ComesHandled
<1> QED BY <1>3, <1>4

LEMMA AlteredComes ==
  ASSUME SlackShape, AllCome, NEW ts \in TimeStamps, NEW kind \in Aspects, NEW who \in Whoever, Watched(ts, kind)',
         NEW t \in DOMAIN said, NEW message \in SaidOnes, NEW type \in {"changed", "deleted", "reacted", "unreacted"}, NEW x \in Nat \cup Speakers,
         Altered(t, message, type, x),
         LET e == Event(type, t, x)
             held == IF kind = "text" THEN message.text ELSE Yes(IF kind = "deleted" THEN message.deleted ELSE who \in message.reacted) IN
         (kind = "reacted" => ~message.deleted) =>
            IF TellsOf(e, t, kind, who) THEN After(e, kind) = held ELSE held = Holds(t, kind, who)
  PROVE  ComesTrue(ts, kind, who)'
<1> DEFINE e == Event(type, t, x)
           held == IF kind = "text" THEN message.text ELSE Yes(IF kind = "deleted" THEN message.deleted ELSE who \in message.reacted)
<1>1. t \in Nat /\ DOMAIN said \subseteq TimeStamps
  BY SaidFacts DEF SlackShape
<1>2. e \in SlackEvents
  BY <1>1 DEF Event, SlackEvents
<1>3. /\ said' = [said EXCEPT ![t] = message] /\ SlackSends(type, t, x) /\ ~said[t].deleted /\ UNCHANGED <<handling, rows>>
      /\ unsure \subseteq unsure'
  BY DEF Altered, theRecord, SlackSends
<1>4. DOMAIN said' = DOMAIN said /\ \A i \in DOMAIN said : said'[i] = IF i = t THEN message ELSE said[i]
  BY <1>3 DEF SlackShape, SlackTypes
<1>5. Watched(ts, kind) /\ ts \in DOMAIN said
  BY <1>3, <1>4 DEF Watched
<1>6. ASSUME ts # t PROVE Holds(ts, kind, who)' = Holds(ts, kind, who)
  BY <1>4, <1>5, <1>6 DEF Holds, Yes
<1>7. ASSUME ts = t PROVE Holds(ts, kind, who)' = held /\ (kind = "reacted" => ~message.deleted)
  BY <1>4, <1>5, <1>7 DEF Holds, Yes, Watched
<1>8. ts = t => IF TellsOf(e, ts, kind, who) THEN After(e, kind) = Holds(ts, kind, who)' ELSE Holds(ts, kind, who)' = Holds(ts, kind, who)
  <2> HIDE DEF held
  <2> QED BY <1>7 DEF held
<1> QED BY <1>2, <1>3, <1>5, <1>6, <1>8, SentComes

LEMMA AlterationsCome ==
  ASSUME SlackShape, AllCome, NEW ts \in TimeStamps, NEW kind \in Aspects, NEW who \in Whoever, Watched(ts, kind)',
         NEW t \in DOMAIN said, SlackEdits(t) \/ SlackDeletes(t) \/ \E w \in Speakers : SlackReacts(t, w)
  PROVE  ComesTrue(ts, kind, who)'
<1>1. SlackTypes
  BY DEF SlackShape
<1>2. said[t].text \in Nat /\ said[t].deleted \in BOOLEAN /\ said[t].reacted \in SUBSET Speakers
  BY <1>1, Alterations
<1>3. ~said[t].deleted
  BY DEF SlackEdits, SlackDeletes, SlackReacts, Altered
<1>4. \A type, x : LET e == Event(type, t, x) IN e.type = type /\ e.ts = t /\ e.x = x
  BY DEF Event
<1>5. kind \in {"text", "deleted", "reacted"}
  BY DEF Aspects
<1>6. CASE SlackEdits(t)
  <2> DEFINE m == [text |-> said[t].text + 1, deleted |-> said[t].deleted, reacted |-> said[t].reacted]
             x == said[t].text + 1
             e == Event("changed", t, x)
  <2>1. Altered(t, m, "changed", x)
    BY <1>1, <1>6, Alterations DEF SlackEdits
  <2>2. m \in SaidOnes /\ m.text = x /\ m.deleted = said[t].deleted /\ m.reacted = said[t].reacted /\ x \in Nat
    BY <1>2 DEF SaidOnes
  <2> HIDE DEF m, x
  <2>3. e.type = "changed" /\ e.ts = t /\ e.x = x
    BY <1>4
  <2> HIDE DEF e
  <2>4. LET held == IF kind = "text" THEN m.text ELSE Yes(IF kind = "deleted" THEN m.deleted ELSE who \in m.reacted) IN
        IF TellsOf(e, t, kind, who) THEN After(e, kind) = held ELSE held = Holds(t, kind, who)
    BY <1>3, <1>5, <2>2, <2>3 DEF TellsOf, Gives, After, Holds, Yes
  <2> QED BY <2>1, <2>2, <2>4, AlteredComes DEF e
<1>7. CASE SlackDeletes(t)
  <2> DEFINE m == [text |-> said[t].text, deleted |-> TRUE, reacted |-> said[t].reacted]
             e == Event("deleted", t, 0)
  <2>1. Altered(t, m, "deleted", 0)
    BY <1>1, <1>7, Alterations DEF SlackDeletes
  <2>2. m \in SaidOnes /\ m.text = said[t].text /\ m.deleted /\ m.reacted = said[t].reacted
    BY <1>2 DEF SaidOnes
  <2> HIDE DEF m
  <2>3. e.type = "deleted" /\ e.ts = t
    BY <1>4
  <2> HIDE DEF e
  <2>4. LET held == IF kind = "text" THEN m.text ELSE Yes(IF kind = "deleted" THEN m.deleted ELSE who \in m.reacted) IN
        (kind = "reacted" => ~m.deleted) =>
        IF TellsOf(e, t, kind, who) THEN After(e, kind) = held ELSE held = Holds(t, kind, who)
    BY <1>5, <2>2, <2>3 DEF TellsOf, Gives, After, Holds, Yes
  <2> QED BY <2>1, <2>2, <2>4, AlteredComes DEF e
<1>8. ASSUME NEW w \in Speakers, SlackReacts(t, w) PROVE ComesTrue(ts, kind, who)'
  <2> DEFINE S == IF w \in said[t].reacted THEN said[t].reacted \ {w} ELSE said[t].reacted \cup {w}
             type == IF w \in said[t].reacted THEN "unreacted" ELSE "reacted"
             m == [text |-> said[t].text, deleted |-> said[t].deleted, reacted |-> S]
             e == Event(type, t, w)
  <2>1. Altered(t, m, type, w)
    <3>1. /\ [said[t] EXCEPT !.reacted = @ \ {w}]
               = [text |-> said[t].text, deleted |-> said[t].deleted, reacted |-> said[t].reacted \ {w}]
          /\ [said[t] EXCEPT !.reacted = @ \cup {w}]
               = [text |-> said[t].text, deleted |-> said[t].deleted, reacted |-> said[t].reacted \cup {w}]
      BY <1>1, Alterations
    <3>2. IF w \in said[t].reacted
            THEN Altered(t, [said[t] EXCEPT !.reacted = @ \ {w}], "unreacted", w)
            ELSE Altered(t, [said[t] EXCEPT !.reacted = @ \cup {w}], "reacted", w)
      BY <1>8 DEF SlackReacts
    <3>3. CASE w \in said[t].reacted
      <4>1. S = said[t].reacted \ {w} /\ type = "unreacted"
        BY <3>3
      <4> QED BY <3>1, <3>2, <3>3, <4>1
    <3>4. CASE w \notin said[t].reacted
      <4>1. S = said[t].reacted \cup {w} /\ type = "reacted"
        BY <3>4
      <4> QED BY <3>1, <3>2, <3>4, <4>1
    <3> QED BY <3>3, <3>4
  <2>2. S \in SUBSET Speakers
    BY <1>2
  <2>3. \A v : v \in S <=> IF v = w THEN type = "reacted" ELSE v \in said[t].reacted
    OBVIOUS
  <2>4. type \in {"reacted", "unreacted"}
    OBVIOUS
  <2> HIDE DEF S, type
  <2>5. m \in SaidOnes /\ m.text = said[t].text /\ m.deleted = said[t].deleted /\ m.reacted = S
    BY <1>2, <2>2 DEF SaidOnes
  <2> HIDE DEF m
  <2>6. e.type = type /\ e.ts = t /\ e.x = w
    BY <1>4
  <2> HIDE DEF e
  <2>7. LET held == IF kind = "text" THEN m.text ELSE Yes(IF kind = "deleted" THEN m.deleted ELSE who \in m.reacted) IN
        IF TellsOf(e, t, kind, who) THEN After(e, kind) = held ELSE held = Holds(t, kind, who)
    <3>1. CASE kind = "text"
      BY <2>4, <2>5, <2>6, <3>1 DEF TellsOf, Gives, Holds
    <3>2. CASE kind = "deleted"
      BY <2>4, <2>5, <2>6, <3>2 DEF TellsOf, Gives, Holds
    <3>3. CASE kind = "reacted"
      BY <2>3, <2>4, <2>5, <2>6, <3>3 DEF TellsOf, Gives, Holds, After, Yes
    <3> QED BY <1>5, <3>1, <3>2, <3>3
  <2>8. type \in {"changed", "deleted", "reacted", "unreacted"}
    BY <2>4
  <2> QED BY <2>1, <2>5, <2>7, <2>8, AlteredComes DEF e
<1> QED BY <1>6, <1>7, <1>8

LEMMA SaysComes ==
  ASSUME SlackShape, AllCome, NEW ts \in TimeStamps, NEW kind \in Aspects, NEW who \in Whoever, Watched(ts, kind)',
         NEW by, Says(by), UNCHANGED <<handling, rows>>
  PROVE  ComesTrue(ts, kind, who)'
<1> USE DEF SlackShape
<1>0. PICK new : new = Len(said) + 1
  OBVIOUS
<1>1. /\ new \in Nat /\ new \notin DOMAIN said /\ DOMAIN said' = DOMAIN said \cup {new}
      /\ said'[new] = [text |-> 0, deleted |-> FALSE, reacted |-> {}]
      /\ \A t \in DOMAIN said : said'[t] = said[t]
      /\ SlackSends("message", new, 0)
  BY <1>0, SaidMore
<1> DEFINE e == Event("message", new, 0)
<1>2. e \in SlackEvents /\ e.type = "message" /\ e.ts = new /\ e.x = 0
  BY <1>1 DEF Event, SlackEvents
<1>3. unsure \subseteq unsure'
  BY <1>1 DEF SlackSends
<1>4. CASE ts # new
  <2>1. Watched(ts, kind) /\ ts \in DOMAIN said
    BY <1>1, <1>3, <1>4 DEF Watched
  <2>2. Holds(ts, kind, who)' = Holds(ts, kind, who)
    BY <1>1, <2>1 DEF Holds, Yes
  <2> QED BY <1>1, <1>2, <1>3, <1>4, <2>1, <2>2, SentComes
<1>5. CASE ts = new
  <2>1. Holds(ts, kind, who)' = 0
    BY <1>1, <1>5 DEF Holds, Yes
  <2>2. events' = Append(events, e) /\ events \in Seq(SlackEvents)
    BY <1>1, <1>5 DEF SlackSends, Watched, SlackTypes
  <2>3. CASE kind # "reacted"
    <3>1. TellsOf(e, ts, kind, who) /\ After(e, kind) = 0
      BY <1>2, <1>5, <2>3 DEF TellsOf, Gives, After, Yes, Aspects
    <3> HIDE DEF e
    <3> QED BY <1>2, <2>1, <2>2, <3>1, ComesTold
  <2>4. CASE kind = "reacted"
    <3>1. /\ Len(events) \in Nat /\ DOMAIN events = 1..Len(events) /\ DOMAIN events' = 1..(Len(events) + 1)
          /\ \A i \in DOMAIN events : events'[i] = events[i]
          /\ events'[Len(events) + 1] = e
      BY <1>2, <2>2, Queued
    <3>2. \A i \in DOMAIN events' : ~TellsOf(events[i], ts, kind, who)'
      <4> SUFFICES ASSUME NEW i \in DOMAIN events', TellsOf(events[i], ts, kind, who)' PROVE FALSE
        OBVIOUS
      <4>1. events'[i].ts = new /\ events'[i].type \in {"reacted", "unreacted"}
        BY <1>5, <2>4 DEF TellsOf
      <4>2. i \in DOMAIN events /\ events'[i] = events[i]
        BY <1>2, <3>1, <4>1
      <4>3. EventFits(events[i])
        BY <4>2 DEF OfWhatWasSaid
      <4> QED BY <1>1, <4>1, <4>2, <4>3 DEF EventFits
    <3>3. ~HasRow(ts) /\ ~HasRow(ts)'
      BY <1>1, <1>5 DEF OfWhatWasSaid, HasRow
    <3>4. RowSays(ts, kind, who)' = 0
      BY <2>4, <3>3 DEF RowSays, ReactedOf, Yes
    <3>5. ToRecord' = ToRecord /\ \A k : ItemOf(k)' = ItemOf(k)
      BY DEF ToRecord, InHand, ItemOf
    <3>6. \A k \in ToRecord : ItemOf(k).ts # ts
      BY <1>1, <1>5 DEF ToRecord, HandlingShape, ItemsFit
    <3>7. Agrees(ts, kind, who)'
      BY <2>1, <3>4, <3>5, <3>6 DEF Agrees
    <3>8. \A i \in DOMAIN events' : ~(TellsOf(events[i], ts, kind, who)' /\ (\A j \in DOMAIN events' : j > i => ~TellsOf(events[j], ts, kind, who)'))
      BY <3>2
    <3> QED BY <3>2, <3>7, <3>8 DEF ComesTrue
  <2> QED BY <2>3, <2>4
<1> QED BY <1>4, <1>5

LEMMA OwnComes ==
  ASSUME SlackShape, AllCome, NEW ts \in TimeStamps, NEW kind \in Aspects, NEW who \in Whoever, Watched(ts, kind)', RecordOwn
  PROVE  ComesTrue(ts, kind, who)'
<1> USE DEF SlackShape
<1> DEFINE e == Event("message", posting, 0)
<1>1. /\ posting # 0 /\ events' = Append(events, e) /\ UNCHANGED <<talk, said, handling, rows>>
      /\ unsure \subseteq unsure' /\ (said[posting].deleted => posting \in unsure')
  BY DEF RecordOwn, channel, theRecord
<1>2. posting \in DOMAIN said /\ posting \in Nat /\ Saying(posting).by = "natsumi" /\ said[posting].text = 0
  <2>1. posting \in DOMAIN said
    BY <1>1 DEF SlackTypes
  <2> QED BY <1>1, <2>1, SaidFacts DEF OfWhatWasSaid
<1>3. e \in SlackEvents /\ e.type = "message" /\ e.ts = posting /\ e.x = 0
  BY <1>2 DEF Event, SlackEvents
<1> HIDE DEF e
<1>4. Watched(ts, kind) /\ Holds(ts, kind, who)' = Holds(ts, kind, who)
  BY <1>1 DEF Watched, Holds, Yes
<1>5. ComesTrue(ts, kind, who) /\ events \in Seq(SlackEvents)
  BY <1>4 DEF AllCome, SlackTypes
<1>6. CASE TellsOf(e, ts, kind, who)
  <2>1. ts = posting /\ kind # "reacted"
    BY <1>3, <1>6 DEF TellsOf
  <2>2. After(e, kind) = Holds(ts, kind, who)
    BY <1>1, <1>2, <1>3, <2>1 DEF After, Holds, Yes, Aspects, Watched
  <2> QED BY <1>1, <1>3, <1>4, <1>5, <1>6, <2>2, ComesTold
<1>7. CASE ~TellsOf(e, ts, kind, who)
  <2>1. Agrees(ts, kind, who) => Agrees(ts, kind, who)'
    BY <1>1, <1>4, SettledStays
  <2> QED BY <1>1, <1>3, <1>4, <1>5, <1>7, <2>1, ComesQueued
<1> QED BY <1>6, <1>7

LEMMA RepeatsCome ==
  ASSUME SlackShape, AllCome, NEW ts \in TimeStamps, NEW kind \in Aspects, NEW who \in Whoever, Watched(ts, kind)',
         NEW i \in DOMAIN events, SlackRepeats(i)
  PROVE  ComesTrue(ts, kind, who)'
<1> USE DEF SlackShape
<1> DEFINE e == events[i]
<1>1. /\ events' = Append(events, e) /\ UNCHANGED <<talk, said, handling, rows>>
      /\ unsure \subseteq unsure' /\ ((\E j \in DOMAIN events : j > i /\ events[j].ts = e.ts) => e.ts \in unsure')
  BY DEF SlackRepeats, channel, theRecord
<1>2. e \in SlackEvents
  BY DEF SlackTypes
<1>3. Watched(ts, kind) /\ Holds(ts, kind, who)' = Holds(ts, kind, who)
  BY <1>1 DEF Watched, Holds, Yes
<1>4. ComesTrue(ts, kind, who) /\ events \in Seq(SlackEvents)
  BY <1>3 DEF AllCome, SlackTypes
<1>5. CASE TellsOf(e, ts, kind, who)
  <2>1. e.ts = ts
    BY <1>5 DEF TellsOf
  <2>2. \A j \in DOMAIN events : j > i => events[j].ts # ts
    BY <1>1, <2>1 DEF Watched
  <2>3. \A j \in DOMAIN events : j > i => ~TellsOf(events[j], ts, kind, who)
    BY <2>2 DEF TellsOf
  <2>4. After(e, kind) = Holds(ts, kind, who)
    BY <1>4, <1>5, <2>3 DEF ComesTrue
  <2> HIDE DEF e
  <2> QED BY <1>1, <1>2, <1>3, <1>4, <1>5, <2>4, ComesTold
<1>6. CASE ~TellsOf(e, ts, kind, who)
  <2>1. Agrees(ts, kind, who) => Agrees(ts, kind, who)'
    BY <1>1, <1>3, SettledStays
  <2> HIDE DEF e
  <2> QED BY <1>1, <1>2, <1>3, <1>4, <1>6, <2>1, ComesQueued
<1> QED BY <1>5, <1>6

LEMMA SocketComes ==
  ASSUME SlackShape, AllCome, NEW ts \in TimeStamps, NEW kind \in Aspects, NEW who \in Whoever, Watched(ts, kind)',
         SlackStarts \/ SlackConnects \/ SocketCloses
  PROVE  ComesTrue(ts, kind, who)'
<1> USE DEF SlackShape
<1>1. UNCHANGED <<talk, said, handling, rows, unsure>>
  BY DEF SlackStarts, SlackConnects, SocketCloses, theRecord, notes
<1>2. Watched(ts, kind) /\ Holds(ts, kind, who)' = Holds(ts, kind, who)
  BY <1>1 DEF Watched, Holds, Yes
<1>3. ComesTrue(ts, kind, who) /\ events \in Seq(SlackEvents)
  BY <1>2 DEF AllCome, SlackTypes
<1>4. Agrees(ts, kind, who) => Agrees(ts, kind, who)'
  BY <1>1, <1>2, SettledStays
<1>5. CASE SlackConnects
  <2> DEFINE e == Event("fill", 0, 0)
  <2>1. e \in SlackEvents /\ e.ts = 0
    BY DEF Event, SlackEvents
  <2>2. events' = Append(events, e)
    BY <1>5 DEF SlackConnects
  <2> HIDE DEF e
  <2>3. ts # 0
    BY SaidFacts
  <2>4. ~TellsOf(e, ts, kind, who)
    BY <2>1, <2>3 DEF TellsOf
  <2> QED BY <1>2, <1>3, <1>4, <2>1, <2>2, <2>4, ComesQueued
<1>6. CASE SlackStarts \/ SocketCloses
  <2>1. events' = events
    BY <1>6 DEF SlackStarts, SocketCloses
  <2> QED BY <1>2, <1>3, <1>4, <2>1, ComesHandled
<1> QED BY <1>5, <1>6

\* What was still to be handled of a message is lost, and then nothing is known of it.
LEMMA DiesComes ==
  ASSUME SlackShape, AllCome, NEW ts \in TimeStamps, NEW kind \in Aspects, NEW who \in Whoever, Watched(ts, kind)', SlackDies
  PROVE  ComesTrue(ts, kind, who)'
<1> USE DEF SlackShape
<1> DEFINE lost == {events[i].ts : i \in DOMAIN events} \cup {handling.items[i].ts : i \in DOMAIN handling.items}
<1>1. /\ UNCHANGED <<talk, said, rows>> /\ events' = <<>> /\ handling' = AtRest /\ unsure \subseteq unsure' /\ lost \ {0} \subseteq unsure'
  BY DEF SlackDies, theRecord
<1>2. Watched(ts, kind) /\ Holds(ts, kind, who)' = Holds(ts, kind, who)
  BY <1>1 DEF Watched, Holds, Yes
<1>3. ts \notin lost
  <2>1. ts # 0
    BY SaidFacts
  <2> HIDE DEF lost
  <2> QED BY <1>1, <2>1 DEF Watched
<1>4. /\ \A i \in DOMAIN events : ~TellsOf(events[i], ts, kind, who)
      /\ \A k \in ToRecord : ItemOf(k).ts # ts
  BY <1>3 DEF TellsOf, ToRecord, InHand, ItemOf
<1>5. Agrees(ts, kind, who)
  BY <1>2, <1>4 DEF AllCome, ComesTrue
<1>6. RowSays(ts, kind, who)' = RowSays(ts, kind, who) /\ (HasRow(ts)' <=> HasRow(ts))
  BY <1>1 DEF RowSays, ReactedOf, HasRow, Yes
<1>7. ToRecord' = {}
  BY <1>1 DEF ToRecord, InHand, AtRest
<1>8. Agrees(ts, kind, who)'
  BY <1>2, <1>4, <1>5, <1>6, <1>7 DEF Agrees
<1>9. DOMAIN events' = {}
  BY <1>1
<1> QED BY <1>8, <1>9 DEF ComesTrue

LEMMA OneComes ==
  ASSUME SlackShape, AllCome, NEW ts \in TimeStamps, NEW kind \in Aspects, NEW who \in Whoever, Watched(ts, kind)', TakesMessage \/ TakesChanged
  PROVE  ComesTrue(ts, kind, who)'
<1> USE DEF SlackShape
<1> DEFINE e == events[1]
<1>1. /\ handling = AtRest /\ events # <<>> /\ events' = Tail(events) /\ UNCHANGED <<talk, said, rows, unsure>>
      /\ Gives(e)
  BY MessageTaken
<1>2. PICK item \in Items : /\ handling' = [at |-> "next", items |-> <<item>>, live |-> TRUE, raises |-> TRUE, new |-> FALSE]
                            /\ item.ts = e.ts /\ item.text = e.x /\ item.reacted = NotSaid
  BY MessageTaken
<1>3. Watched(ts, kind) /\ Holds(ts, kind, who)' = Holds(ts, kind, who)
  BY <1>1 DEF Watched, Holds, Yes
<1>4. ComesTrue(ts, kind, who) /\ events \in Seq(SlackEvents)
  BY <1>3 DEF AllCome, SlackTypes
<1> HIDE DEF e
<1>5. ToRecord = {} /\ ToRecord' = {1} /\ ItemOf(1)' = item
  <2>1. ToRecord = {}
    BY <1>1, AtRestFits
  <2> QED BY <1>2, <2>1 DEF InHand, ToRecord, ItemOf
<1>6. RowSays(ts, kind, who)' = RowSays(ts, kind, who) /\ (HasRow(ts)' <=> HasRow(ts))
  BY <1>1 DEF RowSays, ReactedOf, HasRow, Yes
<1>7. ASSUME ~TellsOf(e, ts, kind, who), Agrees(ts, kind, who) PROVE Agrees(ts, kind, who)'
  <2>1. ts = item.ts => kind = "reacted"
    BY <1>1, <1>2, <1>7 DEF TellsOf, Gives, Aspects
  <2>2. ts = item.ts => ~ItemTells(item, kind)
    BY <1>2, <2>1 DEF ItemTells
  <2> QED BY <1>3, <1>5, <1>6, <1>7, <2>2 DEF Agrees, ItemTells
<1>8. ASSUME TellsOf(e, ts, kind, who), After(e, kind) = Holds(ts, kind, who) PROVE Agrees(ts, kind, who)'
  <2>1. ts = item.ts /\ kind # "reacted"
    BY <1>1, <1>2, <1>8 DEF TellsOf, Gives
  <2>2. ItemTells(item, kind) /\ ItemSays(item, kind, who) = After(e, kind)
    BY <1>1, <1>2, <2>1 DEF ItemTells, ItemSays, After, Gives, Aspects, Yes
  <2> QED BY <1>3, <1>5, <1>8, <2>1, <2>2 DEF Agrees, ItemTells, ItemSays, Yes
<1> QED BY <1>1, <1>3, <1>4, <1>7, <1>8, ComesTaken DEF e

LEMMA ChangesCome ==
  ASSUME SlackShape, AllCome, FirstComes, NEW ts \in TimeStamps, NEW kind \in Aspects, NEW who \in Whoever, Watched(ts, kind)',
         TakesDeleted \/ TakesReacted \/ TakesUnreacted
  PROVE  ComesTrue(ts, kind, who)'
<1> USE DEF SlackShape
<1> DEFINE e == events[1]
<1>1. /\ handling = AtRest /\ events # <<>> /\ events' = Tail(events)
      /\ e.type \in {"deleted", "reacted", "unreacted"} /\ ToRecord' = {} /\ UNCHANGED <<talk, said, unsure>>
      /\ \A t \in TimeStamps : t # e.ts => rows'[t] = rows[t]
      /\ \A t \in TimeStamps : HasRow(t)' <=> HasRow(t)
  BY ChangeTakes
<1>2. ts = e.ts /\ HasRow(ts) =>
              /\ rows'[ts].text = rows[ts].text
              /\ rows'[ts].deleted <=> (rows[ts].deleted \/ e.type = "deleted")
              /\ who \in rows'[ts].reacted <=>
                            IF e.type = "deleted" \/ who # e.x THEN who \in rows[ts].reacted ELSE e.type = "reacted"
  BY ChangeTakes
<1>3. Watched(ts, kind) /\ Holds(ts, kind, who)' = Holds(ts, kind, who)
  BY <1>1 DEF Watched, Holds, Yes
<1>4. ComesTrue(ts, kind, who) /\ events \in Seq(SlackEvents)
  BY <1>3 DEF AllCome, SlackTypes
<1>5. ASSUME ts = e.ts PROVE HasRow(ts)
  <2> SUFFICES ASSUME ~HasRow(ts) PROVE FALSE
    OBVIOUS
  <2>1. ~IsGoing(ts)
    BY <1>1, AtRestFits DEF IsGoing
  <2>2. FirstOf(ts)
    BY <1>3, <2>1 DEF FirstComes, Watched
  <2>3. PICK j \in DOMAIN events : events[j].type = "message" /\ \A i \in 1..(j - 1) : events[i].ts # ts
    BY <2>2 DEF FirstOf
  <2>4. ~(1 \in 1..(j - 1)) /\ j \in 1..Len(events) /\ Len(events) \in Nat
    BY <1>4, <1>5, <2>3
  <2>5. j = 1
    BY <2>4
  <2> QED BY <1>1, <2>3, <2>5
<1> HIDE DEF e
<1>6. ToRecord = {}
  BY <1>1, AtRestFits
<1>7. ASSUME ~TellsOf(e, ts, kind, who) PROVE RowSays(ts, kind, who)' = RowSays(ts, kind, who)
  <2>1. CASE ts # e.ts
    BY <1>1, <2>1 DEF RowSays, ReactedOf, HasRow, Yes
  <2>2. CASE ts = e.ts
    <3>1. HasRow(ts) /\ HasRow(ts)'
      BY <1>1, <1>5, <2>2
    <3>2. CASE kind = "text"
      BY <1>2, <2>2, <3>1, <3>2 DEF RowSays
    <3>3. CASE kind = "deleted"
      <4>1. e.type # "deleted"
        BY <1>7, <2>2, <3>3 DEF TellsOf
      <4>2. rows'[ts].deleted <=> rows[ts].deleted
        BY <1>2, <2>2, <3>1, <4>1
      <4> QED BY <3>3, <4>2 DEF RowSays, Yes
    <3>4. CASE kind = "reacted"
      <4>1. e.type = "deleted" \/ who # e.x
        BY <1>1, <1>7, <2>2, <3>4 DEF TellsOf
      <4>2. who \in rows'[ts].reacted <=> who \in rows[ts].reacted
        BY <1>2, <2>2, <3>1, <4>1
      <4> QED BY <3>1, <3>4, <4>2 DEF RowSays, ReactedOf, Yes, HasRow
    <3> QED BY <3>2, <3>3, <3>4 DEF Aspects
  <2> QED BY <2>1, <2>2
<1>8. ASSUME ~TellsOf(e, ts, kind, who), Agrees(ts, kind, who) PROVE Agrees(ts, kind, who)'
  BY <1>1, <1>3, <1>6, <1>7, <1>8 DEF Agrees
<1>9. ASSUME TellsOf(e, ts, kind, who), After(e, kind) = Holds(ts, kind, who) PROVE Agrees(ts, kind, who)'
  <2>1. ts = e.ts /\ HasRow(ts) /\ HasRow(ts)'
    BY <1>1, <1>5, <1>9 DEF TellsOf
  <2>2. RowSays(ts, kind, who)' = After(e, kind)
    <3>1. CASE kind = "text"
      BY <1>1, <1>9, <3>1 DEF TellsOf, Gives
    <3>2. CASE kind = "deleted"
      <4>1. e.type = "deleted"
        BY <1>1, <1>9, <3>2 DEF TellsOf
      <4>2. rows'[ts].deleted
        BY <1>2, <2>1, <4>1
      <4> QED BY <3>2, <4>1, <4>2 DEF RowSays, Yes, After
    <3>3. CASE kind = "reacted"
      <4>1. e.type # "deleted" /\ who = e.x
        BY <1>1, <1>9, <3>3 DEF TellsOf
      <4>2. who \in rows'[ts].reacted <=> e.type = "reacted"
        BY <1>2, <2>1, <4>1
      <4> QED BY <2>1, <3>3, <4>2 DEF RowSays, ReactedOf, Yes, After
    <3> QED BY <3>1, <3>2, <3>3 DEF Aspects
  <2> QED BY <1>1, <1>3, <1>9, <2>2 DEF Agrees
<1> QED BY <1>1, <1>3, <1>4, <1>8, <1>9, ComesTaken DEF e

LEMMA FillComes ==
  ASSUME SlackShape, AllCome, NEW ts \in TimeStamps, NEW kind \in Aspects, NEW who \in Whoever, Watched(ts, kind)', TakesFill \/ FillFails \/ EventFails
  PROVE  ComesTrue(ts, kind, who)'
<1> USE DEF SlackShape
<1> DEFINE e == events[1]
<1>1. /\ handling = AtRest /\ events # <<>> /\ events' = Tail(events) /\ UNCHANGED <<talk, said, rows>> /\ unsure \subseteq unsure'
      /\ Head(events) = e
  <2>1. /\ handling = AtRest /\ events # <<>> /\ events' = Tail(events) /\ UNCHANGED <<talk, said, rows>> /\ unsure \subseteq unsure'
    BY DEF TakesFill, FillFails, EventFails, TakesEvent, channel, theRecord, notes
  <2> QED BY <2>1, HeadTaken DEF SlackTypes
<1>2. Watched(ts, kind) /\ Holds(ts, kind, who)' = Holds(ts, kind, who)
  BY <1>1 DEF Watched, Holds, Yes
<1>3. ComesTrue(ts, kind, who) /\ events \in Seq(SlackEvents)
  BY <1>2 DEF AllCome, SlackTypes
<1>4. ~TellsOf(e, ts, kind, who)
  <2>1. CASE TakesFill \/ FillFails
    BY <1>1, <2>1 DEF TakesFill, FillFails, TakesEvent, TellsOf, Gives
  <2>2. CASE EventFails
    BY <1>1, <2>2 DEF EventFails, TellsOf, Watched
  <2> QED BY <2>1, <2>2
<1> HIDE DEF e
<1>5. ToRecord = {}
  BY <1>1, AtRestFits
<1>6. RowSays(ts, kind, who)' = RowSays(ts, kind, who) /\ (HasRow(ts)' <=> HasRow(ts))
  BY <1>1 DEF RowSays, ReactedOf, HasRow, Yes
<1>7. \A k \in ToRecord' : ItemOf(k)'.ts = ts => ItemSays(ItemOf(k), kind, who)' = Holds(ts, kind, who)
  <2>1. CASE TakesFill
    <3> SUFFICES ASSUME NEW k \in ToRecord', ItemOf(k)'.ts = ts PROVE ItemSays(ItemOf(k), kind, who)' = Holds(ts, kind, who)
      OBVIOUS
    <3>1. k \in InHand'
      BY DEF ToRecord
    <3>2. /\ ~said[ts].deleted /\ ItemOf(k)'.text = said[ts].text /\ ItemOf(k)'.reacted = said[ts].reacted
      BY <2>1, <3>1, FillTakes
    <3> QED BY <3>2 DEF ItemSays, Holds, Yes, Aspects
  <2>2. CASE FillFails \/ EventFails
    <3>1. handling' = handling
      BY <2>2 DEF FillFails, EventFails
    <3>2. ToRecord' = {}
      BY <1>5, <3>1 DEF ToRecord, InHand
    <3> QED BY <3>2
  <2> QED BY <2>1, <2>2
<1>8. ASSUME Agrees(ts, kind, who) PROVE Agrees(ts, kind, who)'
  BY <1>2, <1>5, <1>6, <1>7, <1>8 DEF Agrees
<1> QED BY <1>1, <1>2, <1>3, <1>4, <1>8, ComesTaken DEF e

\* What is handled changes, and the queue and the record stay.
LEMMA OnlyHandledComes ==
  ASSUME SlackShape, AllCome, NEW ts \in TimeStamps, NEW kind \in Aspects, NEW who \in Whoever, Watched(ts, kind)',
         UNCHANGED <<talk, said, events, rows, unsure>>,
         \A k \in ToRecord' : ItemOf(k)'.ts = ts =>
           \/ ItemTells(ItemOf(k), kind)' /\ ItemSays(ItemOf(k), kind, who)' = Holds(ts, kind, who)
           \/ \E i \in ToRecord : /\ ItemOf(i).ts = ts /\ (ItemTells(ItemOf(k), kind)' <=> ItemTells(ItemOf(i), kind))
                                  /\ ItemSays(ItemOf(k), kind, who)' = ItemSays(ItemOf(i), kind, who),
         \A i \in ToRecord : ItemOf(i).ts = ts =>
           \E k \in ToRecord' : ItemOf(k)'.ts = ts /\ (ItemTells(ItemOf(i), kind) => ItemTells(ItemOf(k), kind)')
  PROVE  ComesTrue(ts, kind, who)'
<1>1. Watched(ts, kind) /\ Holds(ts, kind, who)' = Holds(ts, kind, who)
  BY DEF Watched, Holds, Yes
<1>2. ComesTrue(ts, kind, who)
  BY <1>1 DEF AllCome
<1>3. RowSays(ts, kind, who)' = RowSays(ts, kind, who) /\ (HasRow(ts)' <=> HasRow(ts))
  BY DEF RowSays, ReactedOf, HasRow, Yes
<1>4. ASSUME Agrees(ts, kind, who) PROVE Agrees(ts, kind, who)'
  <2>1. ASSUME NEW k \in ToRecord', ItemOf(k)'.ts = ts, ItemTells(ItemOf(k), kind)'
        PROVE  ItemSays(ItemOf(k), kind, who)' = Holds(ts, kind, who)
    BY <1>4, <2>1 DEF Agrees
  <2>2. ASSUME \A k \in ToRecord' : ItemOf(k)'.ts = ts => ~ItemTells(ItemOf(k), kind)'
        PROVE  \A i \in ToRecord : ItemOf(i).ts = ts => ~ItemTells(ItemOf(i), kind)
    BY <2>2
  <2> QED BY <1>1, <1>3, <1>4, <2>1, <2>2 DEF Agrees
<1> QED BY <1>1, <1>2, <1>4, ComesHandled

LEMMA ParentsCome ==
  ASSUME SlackShape, AllCome, NEW ts \in TimeStamps, NEW kind \in Aspects, NEW who \in Whoever, Watched(ts, kind)', FetchesParent \/ ParentFails
  PROVE  ComesTrue(ts, kind, who)'
<1>1. /\ handling.at = "next" /\ InHand = {1} /\ First = ItemOf(1)
      /\ First.ts \in DOMAIN said /\ First.thread \in DOMAIN said /\ First.thread < First.ts
      /\ handling'.at = "next"
      /\ UNCHANGED <<talk, said, events, rows, unsure>>
  BY ParentTakes
<1> DEFINE Same(n) == /\ ItemOf(n)'.ts = First.ts /\ ItemOf(n)'.text = First.text /\ ItemOf(n)'.reacted = First.reacted
           Parent == /\ ItemOf(1)'.ts = First.thread /\ ~said[First.thread].deleted
                     /\ ItemOf(1)'.text = said[First.thread].text /\ ItemOf(1)'.reacted = said[First.thread].reacted
<1>a. \E n \in {1, 2} : InHand' = 1..n /\ Same(n) /\ (n = 2 => Parent)
  BY ParentTakes
<1> HIDE DEF Same, Parent
<1>2. PICK n \in {1, 2} : InHand' = 1..n /\ Same(n) /\ (n = 2 => Parent)
  BY <1>a
<1>s. ItemOf(n)'.ts = First.ts /\ ItemOf(n)'.text = First.text /\ ItemOf(n)'.reacted = First.reacted
  BY <1>2 DEF Same
<1>3. ToRecord = {1} /\ ToRecord' = 1..n
  BY <1>1, <1>2 DEF ToRecord
<1>4. First.ts # First.thread /\ DOMAIN said \subseteq TimeStamps /\ \A t \in DOMAIN said : said[t] \in SaidOnes
  BY <1>1, SaidFacts DEF SlackShape
<1>5. (ItemTells(ItemOf(n), kind)' <=> ItemTells(ItemOf(1), kind)) /\ ItemSays(ItemOf(n), kind, who)' = ItemSays(ItemOf(1), kind, who)
  BY <1>1, <1>s DEF ItemTells, ItemSays, Yes
<1>6. ASSUME NEW k \in ToRecord', ItemOf(k)'.ts = ts
      PROVE  \/ ItemTells(ItemOf(k), kind)' /\ ItemSays(ItemOf(k), kind, who)' = Holds(ts, kind, who)
             \/ \E i \in ToRecord : /\ ItemOf(i).ts = ts /\ (ItemTells(ItemOf(k), kind)' <=> ItemTells(ItemOf(i), kind))
                                    /\ ItemSays(ItemOf(k), kind, who)' = ItemSays(ItemOf(i), kind, who)
  <2>1. CASE k = n
    <3>1. 1 \in ToRecord /\ ItemOf(1).ts = ts
      BY <1>1, <1>s, <1>3, <1>6, <2>1
    <3> QED BY <1>5, <2>1, <3>1
  <2>2. CASE k # n
    <3>1. n = 2 /\ k = 1
      BY <1>3, <2>2
    <3>p. /\ ItemOf(k)'.ts = First.thread /\ ~said[First.thread].deleted
          /\ ItemOf(k)'.text = said[First.thread].text /\ ItemOf(k)'.reacted = said[First.thread].reacted
      BY <1>2, <3>1 DEF Parent
    <3>2. ItemOf(k)'.reacted # NotSaid
      <4>1. said[First.thread].reacted \subseteq Speakers
        BY <1>1, <1>4 DEF SaidOnes
      <4>2. said[First.thread].reacted # NotSaid
        BY <4>1, SlackAssumption DEF NotSaid
      <4> QED BY <3>p, <4>2
    <3>3. ItemTells(ItemOf(k), kind)'
      BY <3>2 DEF ItemTells
    <3>4. ItemSays(ItemOf(k), kind, who)' = Holds(ts, kind, who)
      BY <1>6, <3>p DEF ItemSays, Holds, Yes, Aspects
    <3> QED BY <3>3, <3>4
  <2> QED BY <2>1, <2>2
<1>7. ASSUME NEW i \in ToRecord, ItemOf(i).ts = ts
      PROVE  \E k \in ToRecord' : ItemOf(k)'.ts = ts /\ (ItemTells(ItemOf(i), kind) => ItemTells(ItemOf(k), kind)')
  <2>1. i = 1 /\ n \in ToRecord' /\ ItemOf(n)'.ts = ts
    BY <1>1, <1>2, <1>s, <1>3, <1>7
  <2> QED BY <1>5, <2>1
<1> QED BY <1>1, <1>6, <1>7, OnlyHandledComes

LEMMA GoesOnComes ==
  ASSUME SlackShape, AllCome, NEW ts \in TimeStamps, NEW kind \in Aspects, NEW who \in Whoever, Watched(ts, kind)',
         (RecordsFile \/ FileFails) \/ FetchesThread
  PROVE  ComesTrue(ts, kind, who)'
<1> USE DEF SlackShape
<1>1. /\ handling.at \in {"write", "thread"} /\ UNCHANGED <<talk, said, events, rows, unsure>>
  BY GoesOnTakes
<1>2. \A t \in DOMAIN said : said[t] \in SaidOnes
  BY SaidFacts
<1>3. ASSUME handling'.at = "thread", InHand' = InHand, \A k : ItemOf(k)' = ItemOf(k) PROVE ComesTrue(ts, kind, who)'
  <2>1. ToRecord' = ToRecord
    BY <1>1, <1>3 DEF ToRecord
  <2>2. \A k : (ItemTells(ItemOf(k), kind)' <=> ItemTells(ItemOf(k), kind)) /\ ItemSays(ItemOf(k), kind, who)' = ItemSays(ItemOf(k), kind, who)
    BY <1>3 DEF ItemTells, ItemSays, Yes
  <2>3. \A k \in ToRecord' : ItemOf(k)'.ts = ts =>
           \E i \in ToRecord : /\ ItemOf(i).ts = ts /\ (ItemTells(ItemOf(k), kind)' <=> ItemTells(ItemOf(i), kind))
                                  /\ ItemSays(ItemOf(k), kind, who)' = ItemSays(ItemOf(i), kind, who)
    BY <1>3, <2>1, <2>2
  <2>4. \A i \in ToRecord : ItemOf(i).ts = ts =>
           \E k \in ToRecord' : ItemOf(k)'.ts = ts /\ (ItemTells(ItemOf(i), kind) => ItemTells(ItemOf(k), kind)')
    BY <1>3, <2>1, <2>2
  <2> QED BY <1>1, <2>3, <2>4, OnlyHandledComes
<1>4. ASSUME NEW m, ThreadTaken(m) PROVE ComesTrue(ts, kind, who)'
  <2> DEFINE n == Len(handling.items)
  <2>1. /\ m \in Nat /\ InHand' = 1..(m + n - 1) /\ handling'.at = "next"
        /\ \A k \in 1..m : /\ ItemOf(k)'.ts \in DOMAIN said /\ ~said[ItemOf(k)'.ts].deleted
                           /\ ItemOf(k)'.text = said[ItemOf(k)'.ts].text /\ ItemOf(k)'.reacted = said[ItemOf(k)'.ts].reacted
        /\ \A k \in (m + 1)..(m + n - 1) : k - m + 1 \in InHand /\ k - m + 1 # 1 /\ ItemOf(k)' = ItemOf(k - m + 1)
        /\ \A k \in InHand : k # 1 => k + m - 1 \in InHand' /\ ItemOf(k + m - 1)' = ItemOf(k)
    BY <1>4 DEF ThreadTaken
  <2>2. n \in Nat /\ InHand = 1..n
    BY HandlingFacts
  <2> HIDE DEF n
  <2>3. ToRecord' = InHand' /\ ToRecord = {k \in InHand : k # 1}
    BY <1>1, <2>1, <2>2 DEF ToRecord
  <2>4. ASSUME NEW k, NEW i, ItemOf(k)' = ItemOf(i)
        PROVE  (ItemTells(ItemOf(k), kind)' <=> ItemTells(ItemOf(i), kind)) /\ ItemSays(ItemOf(k), kind, who)' = ItemSays(ItemOf(i), kind, who)
    BY <2>4 DEF ItemTells, ItemSays, Yes
  <2>5. ASSUME NEW k \in ToRecord', ItemOf(k)'.ts = ts
        PROVE  \/ ItemTells(ItemOf(k), kind)' /\ ItemSays(ItemOf(k), kind, who)' = Holds(ts, kind, who)
               \/ \E i \in ToRecord : /\ ItemOf(i).ts = ts /\ (ItemTells(ItemOf(k), kind)' <=> ItemTells(ItemOf(i), kind))
                                      /\ ItemSays(ItemOf(k), kind, who)' = ItemSays(ItemOf(i), kind, who)
    <3>1. CASE k \in 1..m
      <4>1. ~said[ts].deleted /\ ItemOf(k)'.text = said[ts].text /\ ItemOf(k)'.reacted = said[ts].reacted /\ ts \in DOMAIN said
        BY <2>1, <2>5, <3>1
      <4>2. said[ts].reacted \subseteq Speakers
        BY <1>2, <4>1 DEF SaidOnes
      <4>3. ItemOf(k)'.reacted # NotSaid
        BY <4>1, <4>2, SlackAssumption DEF NotSaid
      <4>4. ItemSays(ItemOf(k), kind, who)' = Holds(ts, kind, who)
        BY <4>1 DEF ItemSays, Holds, Yes, Aspects
      <4> QED BY <4>3, <4>4 DEF ItemTells
    <3>2. CASE k \in (m + 1)..(m + n - 1)
      <4>1. PICK i \in ToRecord : i = k - m + 1 /\ ItemOf(k)' = ItemOf(i)
        BY <2>1, <2>3, <3>2
      <4>2. ItemOf(i).ts = ts
        BY <2>5, <4>1
      <4> QED BY <2>4, <4>1, <4>2
    <3> QED BY <2>1, <2>2, <2>3, <3>1, <3>2
  <2>6. ASSUME NEW i \in ToRecord, ItemOf(i).ts = ts
        PROVE  \E k \in ToRecord' : ItemOf(k)'.ts = ts /\ (ItemTells(ItemOf(i), kind) => ItemTells(ItemOf(k), kind)')
    <3>1. i + m - 1 \in ToRecord' /\ ItemOf(i + m - 1)' = ItemOf(i)
      BY <2>1, <2>3
    <3>2. PICK k \in ToRecord' : k = i + m - 1
      BY <3>1
    <3>3. ItemOf(k)' = ItemOf(i)
      BY <3>1, <3>2
    <3> QED BY <2>4, <2>6, <3>3
  <2> QED BY <1>1, <2>5, <2>6, OnlyHandledComes
<1> QED BY <1>3, <1>4, GoesOnTakes

LEMMA DoneComes ==
  ASSUME SlackShape, AllCome, NEW ts \in TimeStamps, NEW kind \in Aspects, NEW who \in Whoever, Watched(ts, kind)', Handled
  PROVE  ComesTrue(ts, kind, who)'
<1>1. handling.items = <<>> /\ handling' = AtRest /\ UNCHANGED <<talk, said, events, rows, unsure>>
  BY DEF Handled, channel, theRecord, notes
<1>2. ToRecord = {} /\ ToRecord' = {}
  BY <1>1 DEF AtRest, ToRecord, InHand
<1> QED BY <1>1, <1>2, OnlyHandledComes

LEMMA RowComes ==
  ASSUME SlackShape, AllCome, NEW ts \in TimeStamps, NEW kind \in Aspects, NEW who \in Whoever, Watched(ts, kind)', RecordsRow
  PROVE  ComesTrue(ts, kind, who)'
<1> USE DEF SlackShape
<1> DEFINE row == RowWith(First)
<1>1. /\ handling.items # <<>> /\ handling.at = "next" /\ rows' = [rows EXCEPT ![First.ts] = row]
      /\ handling'.at = "write" /\ InHand' = InHand /\ (\A k : ItemOf(k)' = ItemOf(k))
      /\ UNCHANGED <<talk, said, events>>
  BY RowTakes
<1>2. /\ First \in Items /\ First = ItemOf(1) /\ 1 \in InHand /\ First.ts \in DOMAIN said /\ First.ts \in TimeStamps
  BY <1>1, FirstFits
<1>3. /\ row \in SlackRows /\ row.text = First.text /\ ~row.deleted
      /\ row.reacted = (IF First.reacted = NotSaid THEN ReactedOf(First.ts) ELSE First.reacted)
  BY <1>2, RecordedRow
<1> HIDE DEF row
<1>4. PICK at \in TimeStamps : at = First.ts
  BY <1>2
<1>5. /\ rows'[at] = row /\ HasRow(at)'
      /\ \A t \in TimeStamps \ {at} : rows'[t] = rows[t] /\ (HasRow(t)' <=> HasRow(t))
  BY <1>1, <1>3, <1>4, RowWritten
<1>6. unsure' = IF ReadAfresh(First) THEN unsure \ {at} ELSE unsure
  BY <1>4 DEF RecordsRow
<1>7. Holds(ts, kind, who)' = Holds(ts, kind, who)
  BY <1>1 DEF Holds, Yes
<1>8. /\ ToRecord = InHand /\ ToRecord' \subseteq ToRecord /\ 1 \in ToRecord /\ (\A k \in ToRecord : k # 1 => k \in ToRecord')
      /\ \A k \in ToRecord' : k # 1
  <2>1. InHand = 1..Len(handling.items) /\ Len(handling.items) \in Nat
    BY HandlingFacts
  <2> QED BY <1>1, <1>2, <2>1 DEF ToRecord
<1>9. \A k : (ItemTells(ItemOf(k), kind)' <=> ItemTells(ItemOf(k), kind)) /\ ItemSays(ItemOf(k), kind, who)' = ItemSays(ItemOf(k), kind, who)
  BY <1>1 DEF ItemTells, ItemSays, Yes
<1>10. CASE ts # at
  <2>1. Watched(ts, kind)
    BY <1>1, <1>6, <1>10 DEF Watched
  <2>2. RowSays(ts, kind, who)' = RowSays(ts, kind, who) /\ (HasRow(ts)' <=> HasRow(ts))
    BY <1>5, <1>10 DEF RowSays, ReactedOf, HasRow, Yes
  <2>3. ItemOf(1).ts # ts
    BY <1>2, <1>4, <1>10
  <2>4. ASSUME Agrees(ts, kind, who) PROVE Agrees(ts, kind, who)'
    <3>1. \A k \in ToRecord' : ItemOf(k)'.ts = ts /\ ItemTells(ItemOf(k), kind)' => ItemSays(ItemOf(k), kind, who)' = Holds(ts, kind, who)
      BY <1>1, <1>8, <1>9, <2>4 DEF Agrees
    <3>2. (\A k \in ToRecord' : ItemOf(k)'.ts = ts => ~ItemTells(ItemOf(k), kind)')
            => \A k \in ToRecord : ItemOf(k).ts = ts => ~ItemTells(ItemOf(k), kind)
      BY <1>1, <1>8, <1>9, <2>3
    <3> QED BY <1>7, <2>2, <2>4, <3>1, <3>2 DEF Agrees
  <2>5. ComesTrue(ts, kind, who)
    BY <2>1 DEF AllCome
  <2> QED BY <1>1, <1>7, <2>4, <2>5, ComesHandled
<1>11. CASE ts = at
  <2>1. \A k \in ToRecord' : ItemOf(k)'.ts # ts
    <3> SUFFICES ASSUME NEW k \in ToRecord', ItemOf(k).ts = ItemOf(1).ts PROVE FALSE
      BY <1>1, <1>2, <1>4, <1>11
    <3>1. k \in InHand /\ 1 \in InHand /\ k # 1
      BY <1>2, <1>8
    <3> QED BY <3>1 DEF HandlingShape, ItemsApart
  <2>2. ASSUME First.reacted # NotSaid \/ kind # "reacted" PROVE RowSays(ts, kind, who)' = ItemSays(First, kind, who) /\ ItemTells(First, kind)
    <3>1. rows'[ts] = row /\ ReactedOf(ts)' = row.reacted
      BY <1>5, <1>11 DEF ReactedOf
    <3>2. CASE kind = "text"
      BY <1>3, <3>1, <3>2 DEF RowSays, ItemSays, ItemTells
    <3>3. CASE kind = "deleted"
      BY <1>3, <3>1, <3>3 DEF RowSays, ItemSays, ItemTells, Yes
    <3>4. CASE kind = "reacted"
      BY <1>3, <2>2, <3>1, <3>4 DEF RowSays, ItemSays, ItemTells, Yes
    <3> QED BY <3>2, <3>3, <3>4 DEF Aspects
  <2>3. CASE Watched(ts, kind)
    <3>1. ComesTrue(ts, kind, who)
      BY <2>3 DEF AllCome
    <3>2. ASSUME Agrees(ts, kind, who) PROVE Agrees(ts, kind, who)'
      <4>1. CASE First.reacted # NotSaid \/ kind # "reacted"
        <5>1. ItemSays(First, kind, who) = Holds(ts, kind, who)
          BY <1>2, <1>4, <1>8, <1>11, <2>2, <3>2, <4>1 DEF Agrees
        <5> QED BY <1>7, <2>1, <2>2, <4>1, <5>1 DEF Agrees
      <4>2. CASE First.reacted = NotSaid /\ kind = "reacted"
        <5>1. \A k \in ToRecord : ItemOf(k).ts = ts => k = 1
          BY <1>1, <1>8, <2>1
        <5>2. \A k \in ToRecord : ItemOf(k).ts = ts => ~ItemTells(ItemOf(k), kind)
          BY <1>2, <4>2, <5>1 DEF ItemTells
        <5>3. RowSays(ts, kind, who) = Holds(ts, kind, who)
          BY <3>2, <4>2, <5>2 DEF Agrees
        <5>4. RowSays(ts, kind, who)' = RowSays(ts, kind, who)
          <6>1. ReactedOf(ts)' = row.reacted /\ row.reacted = ReactedOf(ts)
            BY <1>3, <1>4, <1>5, <1>11, <4>2 DEF ReactedOf
          <6> QED BY <4>2, <6>1 DEF RowSays, Yes
        <5> QED BY <1>7, <2>1, <5>3, <5>4 DEF Agrees
      <4> QED BY <4>1, <4>2
    <3> QED BY <1>1, <1>7, <3>1, <3>2, ComesHandled
  <2>4. CASE ~Watched(ts, kind)
    <3>1. ReadAfresh(First)
      BY <1>1, <1>6, <2>4 DEF Watched
    <3>2. /\ First.reacted # NotSaid /\ {i \in DOMAIN events : events[i].ts = ts} = {} /\ ~said[ts].deleted
          /\ First.text = said[ts].text /\ First.reacted = said[ts].reacted
      BY <1>4, <1>11, <3>1 DEF ReadAfresh, About
    <3>3. ItemSays(First, kind, who) = Holds(ts, kind, who)
      BY <3>2 DEF ItemSays, Holds, Yes, Aspects
    <3>4. Agrees(ts, kind, who)'
      BY <1>7, <2>1, <2>2, <3>2, <3>3 DEF Agrees
    <3>5. \A i \in DOMAIN events' : ~TellsOf(events[i], ts, kind, who)'
      BY <1>1, <3>2 DEF TellsOf
    <3> QED BY <3>4, <3>5 DEF ComesTrue
  <2> QED BY <2>3, <2>4
<1> QED BY <1>10, <1>11

LEMMA FirstQueued ==
  ASSUME events \in Seq(SlackEvents), NEW e \in SlackEvents, events' = Append(events, e), NEW ts, FirstOf(ts)
  PROVE  FirstOf(ts)'
<1>1. /\ Len(events) \in Nat /\ DOMAIN events = 1..Len(events) /\ DOMAIN events' = 1..(Len(events) + 1)
      /\ \A i \in DOMAIN events : events'[i] = events[i]
  BY Queued
<1>2. PICK j \in DOMAIN events : events[j].type = "message" /\ events[j].ts = ts /\ \A i \in 1..(j - 1) : events[i].ts # ts
  BY DEF FirstOf
<1>3. j \in DOMAIN events' /\ events'[j] = events[j] /\ \A i \in 1..(j - 1) : i \in DOMAIN events /\ events'[i] = events[i]
  BY <1>1
<1> QED BY <1>2, <1>3 DEF FirstOf

LEMMA FirstTaken ==
  ASSUME events \in Seq(SlackEvents), events # <<>>, events' = Tail(events), NEW ts, FirstOf(ts),
         ~(events[1].type = "message" /\ events[1].ts = ts)
  PROVE  FirstOf(ts)'
<1>1. /\ Len(events) \in Nat /\ DOMAIN events = 1..Len(events) /\ DOMAIN events' = 1..(Len(events) - 1)
      /\ \A i \in DOMAIN events' : i + 1 \in DOMAIN events /\ events'[i] = events[i + 1]
  BY HeadTaken
<1>2. PICK j \in DOMAIN events : events[j].type = "message" /\ events[j].ts = ts /\ \A i \in 1..(j - 1) : events[i].ts # ts
  BY DEF FirstOf
<1>3. j \in Nat /\ j > 1
  BY <1>1, <1>2
<1>4. j - 1 \in DOMAIN events' /\ j - 1 + 1 = j /\ events'[j - 1] = events[j]
  BY <1>1, <1>3
<1>5. \A i \in 1..(j - 1 - 1) : i \in DOMAIN events' /\ i + 1 \in 1..(j - 1)
  BY <1>1, <1>3
<1>6. \A i \in 1..(j - 1 - 1) : events'[i].ts # ts
  BY <1>1, <1>2, <1>5
<1> QED BY <1>2, <1>4, <1>6 DEF FirstOf

\* What was there first is there still, for every message not recorded.
LEMMA FirstStays ==
  ASSUME FirstComes,
         \A ts \in TimeStamps : ts \in DOMAIN said' /\ ts \notin unsure' /\ ~HasRow(ts)' =>
           /\ ts \in DOMAIN said /\ ts \notin unsure /\ ~HasRow(ts)
           /\ IsGoing(ts) \/ FirstOf(ts) => (IsGoing(ts) \/ FirstOf(ts))'
  PROVE  FirstComes'
  BY DEF FirstComes

LEMMA FirstSays ==
  ASSUME SlackShape, FirstComes, NEW by, Says(by), UNCHANGED <<handling, rows>>
  PROVE  FirstComes'
<1> USE DEF SlackShape
<1>0. PICK new : new = Len(said) + 1
  OBVIOUS
<1>1. new \in Nat /\ new \notin DOMAIN said /\ DOMAIN said' = DOMAIN said \cup {new} /\ SlackSends("message", new, 0)
  BY <1>0, SaidMore
<1>2. PICK e : e = Event("message", new, 0)
  OBVIOUS
<1>3. e \in SlackEvents /\ e.type = "message" /\ e.ts = new
  BY <1>1, <1>2 DEF Event, SlackEvents
<1>4. /\ unsure \subseteq unsure' /\ (events' = events \/ events' = Append(events, e))
      /\ new \notin unsure' => events' = Append(events, e)
  BY <1>1, <1>2 DEF SlackSends
<1>5. events \in Seq(SlackEvents)
  BY DEF SlackTypes
<1> SUFFICES ASSUME NEW ts \in TimeStamps, ts \in DOMAIN said', ts \notin unsure', ~HasRow(ts)' PROVE IsGoing(ts)' \/ FirstOf(ts)'
  BY DEF FirstComes
<1>6. CASE ts = new
  <2>1. events' = Append(events, e)
    BY <1>4, <1>6
  <2>2. /\ Len(events) \in Nat /\ DOMAIN events = 1..Len(events) /\ DOMAIN events' = 1..(Len(events) + 1)
        /\ \A i \in DOMAIN events : events'[i] = events[i]
        /\ events'[Len(events) + 1] = e
    BY <1>3, <1>5, <2>1, Queued
  <2>3. \A i \in DOMAIN events : events[i].ts # new
    <3> SUFFICES ASSUME NEW i \in DOMAIN events, events[i].ts = new PROVE FALSE
      OBVIOUS
    <3>1. EventFits(events[i]) /\ new # 0
      BY <1>0, SaidFacts DEF OfWhatWasSaid
    <3> QED BY <1>1, <3>1 DEF EventFits
  <2>4. PICK j \in DOMAIN events' : events'[j] = e /\ j = Len(events) + 1
    BY <2>2
  <2>5. \A i \in 1..(j - 1) : i \in DOMAIN events
    BY <2>2, <2>4
  <2>6. events'[j].type = "message" /\ events'[j].ts = ts /\ \A i \in 1..(j - 1) : events'[i].ts # ts
    BY <1>3, <1>6, <2>2, <2>3, <2>4, <2>5
  <2> QED BY <2>4, <2>6 DEF FirstOf
<1>7. CASE ts # new
  <2>1. IsGoing(ts) \/ FirstOf(ts)
    BY <1>1, <1>4, <1>7 DEF FirstComes, HasRow
  <2>2. IsGoing(ts) => IsGoing(ts)'
    BY DEF IsGoing, InHand, ItemOf
  <2>3. FirstOf(ts) => FirstOf(ts)'
    <3>1. CASE events' = events
      BY <3>1 DEF FirstOf
    <3>2. CASE events' = Append(events, e)
      BY <1>3, <1>5, <3>2, FirstQueued
    <3> QED BY <1>4, <3>1, <3>2
  <2> QED BY <2>1, <2>2, <2>3
<1> QED BY <1>6, <1>7

\* Events are added, and what is being handled and the rows stay.
LEMMA FirstAside ==
  ASSUME SlackShape, FirstComes, UNCHANGED <<handling, rows>>, DOMAIN said' = DOMAIN said, unsure \subseteq unsure',
         events' = events \/ \E e \in SlackEvents : events' = Append(events, e)
  PROVE  FirstComes'
<1>1. events \in Seq(SlackEvents)
  BY DEF SlackShape, SlackTypes
<1>2. \A ts : IsGoing(ts) => IsGoing(ts)'
  BY DEF IsGoing, InHand, ItemOf
<1>3. \A ts : FirstOf(ts) => FirstOf(ts)'
  <2>1. CASE events' = events
    BY <2>1 DEF FirstOf
  <2>2. ASSUME NEW e \in SlackEvents, events' = Append(events, e), NEW ts, FirstOf(ts) PROVE FirstOf(ts)'
    BY <1>1, <2>2, FirstQueued
  <2> QED BY <2>1, <2>2
<1> QED BY <1>2, <1>3, FirstStays DEF HasRow

\* The first of the queue is taken where nothing was being handled.
LEMMA FirstDrops ==
  ASSUME SlackShape, FirstComes, handling = AtRest, events # <<>>, events' = Tail(events), said' = said, unsure \subseteq unsure',
         \A t \in TimeStamps : HasRow(t)' <=> HasRow(t),
         \A t : events[1].type = "message" /\ t = events[1].ts => t \in unsure' \/ IsGoing(t)'
  PROVE  FirstComes'
<1>1. events \in Seq(SlackEvents) /\ \A ts : ~IsGoing(ts)
  BY AtRestFits DEF SlackShape, SlackTypes, IsGoing
<1> SUFFICES ASSUME NEW ts \in TimeStamps, ts \in DOMAIN said', ts \notin unsure', ~HasRow(ts)' PROVE IsGoing(ts)' \/ FirstOf(ts)'
  BY DEF FirstComes
<1>2. FirstOf(ts)
  BY <1>1 DEF FirstComes
<1>3. CASE events[1].type = "message" /\ events[1].ts = ts
  BY <1>3
<1>4. CASE ~(events[1].type = "message" /\ events[1].ts = ts)
  BY <1>1, <1>2, <1>4, FirstTaken
<1> QED BY <1>3, <1>4

LEMMA FirstDies == ASSUME SlackShape, FirstComes, SlackDies PROVE FirstComes'
<1> DEFINE lost == {events[i].ts : i \in DOMAIN events} \cup {handling.items[i].ts : i \in DOMAIN handling.items}
<1>1. UNCHANGED <<talk, said, rows>> /\ unsure \subseteq unsure' /\ lost \ {0} \subseteq unsure'
  BY DEF SlackDies, theRecord
<1> SUFFICES ASSUME NEW ts \in TimeStamps, ts \in DOMAIN said', ts \notin unsure', ~HasRow(ts)' PROVE FALSE
  BY DEF FirstComes
<1>2. ts # 0
  BY SaidFacts DEF SlackShape
<1>3. IsGoing(ts) \/ FirstOf(ts)
  BY <1>1 DEF FirstComes, HasRow
<1>4. ts \in lost
  BY <1>3 DEF IsGoing, FirstOf, InHand, ItemOf
<1> HIDE DEF lost
<1> QED BY <1>1, <1>2, <1>4

LEMMA FirstTakes ==
  ASSUME SlackShape, FirstComes,
         \/ TakesMessage \/ TakesChanged \/ TakesDeleted \/ TakesReacted \/ TakesUnreacted
         \/ TakesFill \/ FillFails \/ EventFails
  PROVE  FirstComes'
<1>1. CASE TakesMessage \/ TakesChanged
  <2>1. LET e == events[1] IN
        /\ handling = AtRest /\ events # <<>> /\ events' = Tail(events) /\ UNCHANGED <<said, unsure, rows>>
        /\ \E item \in Items : /\ handling' = [at |-> "next", items |-> <<item>>, live |-> TRUE, raises |-> TRUE, new |-> FALSE]
                             /\ item.ts = e.ts
    BY <1>1, MessageTaken
  <2>2. ASSUME NEW t, t = events[1].ts PROVE IsGoing(t)'
    <3>1. PICK item \in Items : /\ handling' = [at |-> "next", items |-> <<item>>, live |-> TRUE, raises |-> TRUE, new |-> FALSE]
                               /\ item.ts = t
      BY <2>1, <2>2
    <3>2. 1 \in InHand' /\ ItemOf(1)' = item
      BY <3>1 DEF InHand, ItemOf
    <3> QED BY <3>1, <3>2 DEF IsGoing
  <2>3. \A t \in TimeStamps : HasRow(t)' <=> HasRow(t)
    BY <2>1 DEF HasRow
  <2> QED BY <2>1, <2>2, <2>3, FirstDrops
<1>2. CASE TakesDeleted \/ TakesReacted \/ TakesUnreacted
  <2>1. LET e == events[1] IN
        /\ handling = AtRest /\ events # <<>> /\ events' = Tail(events) /\ UNCHANGED <<said, unsure>>
        /\ e.type \in {"deleted", "reacted", "unreacted"}
        /\ \A t \in TimeStamps : HasRow(t)' <=> HasRow(t)
    BY <1>2, ChangeTakes
  <2> QED BY <2>1, FirstDrops
<1>3. CASE TakesFill \/ FillFails
  <2>1. TakesEvent("fill") /\ UNCHANGED <<said, unsure, rows>>
    BY <1>3 DEF TakesFill, FillFails, channel, theRecord, notes
  <2>2. events[1].type # "message" /\ handling = AtRest /\ events # <<>> /\ events' = Tail(events)
    BY <2>1, HeadFits DEF TakesEvent
  <2> QED BY <2>1, <2>2, FirstDrops DEF HasRow
<1>4. CASE EventFails
  <2>1. PICK type : TakesEvent(type)
    BY <1>4 DEF EventFails
  <2>2. UNCHANGED <<said, rows>> /\ unsure' = unsure \cup {Head(events).ts}
    BY <1>4 DEF EventFails, channel, theRecord
  <2>3. Head(events) = events[1] /\ handling = AtRest /\ events # <<>> /\ events' = Tail(events)
    BY <2>1, HeadFits DEF TakesEvent
  <2>4. unsure \subseteq unsure' /\ \A t : t = events[1].ts => t \in unsure'
    BY <2>2, <2>3
  <2> QED BY <2>2, <2>3, <2>4, FirstDrops DEF HasRow
<1> QED BY <1>1, <1>2, <1>3, <1>4

\* What is handled changes, and the queue stays.
LEMMA FirstHandled ==
  ASSUME SlackShape, FirstComes,
         FetchesParent \/ ParentFails \/ RecordsRow \/ (RecordsFile \/ FileFails) \/ FetchesThread \/ Handled
  PROVE  FirstComes'
<1> USE DEF SlackShape
<1>1. CASE FetchesParent \/ ParentFails
  <2>1. UNCHANGED <<said, events, rows, unsure>> /\ InHand = {1} /\ First = ItemOf(1)
    BY <1>1, ParentTakes
  <2>2. PICK n \in {1, 2} : InHand' = 1..n /\ ItemOf(n)'.ts = First.ts
    BY <1>1, ParentTakes
  <2>3. \A ts : IsGoing(ts) => IsGoing(ts)'
    BY <2>1, <2>2 DEF IsGoing
  <2>4. \A ts : FirstOf(ts) => FirstOf(ts)'
    BY <2>1 DEF FirstOf
  <2> QED BY <2>1, <2>3, <2>4, FirstStays DEF HasRow
<1>2. CASE RecordsRow
  <2>1. PICK at \in TimeStamps : at = First.ts /\ RowsGo(at)
    BY <1>2, RecordedGoes
  <2>2. UNCHANGED <<said, events>> /\ unsure \ {at} \subseteq unsure' /\ handling'.items = handling.items
    <3>1. UNCHANGED <<said, events>> /\ handling' = [handling EXCEPT !.at = "write", !.new = ~HasRow(First.ts)]
          /\ unsure' = IF ReadAfresh(First) THEN unsure \ {First.ts} ELSE unsure
      BY <1>2 DEF RecordsRow, channel
    <3>2. unsure \ {at} \subseteq unsure'
      BY <2>1, <3>1
    <3>3. handling'.items = handling.items
      BY <3>1 DEF SlackTypes
    <3> QED BY <3>1, <3>2, <3>3
  <2>3. /\ HasRow(at)' /\ \A t \in TimeStamps : t # at => (HasRow(t)' <=> HasRow(t))
    BY <2>1 DEF RowsGo, HasRow
  <2>4. \A ts : IsGoing(ts) => IsGoing(ts)'
    BY <2>2 DEF IsGoing, InHand, ItemOf
  <2>5. \A ts : FirstOf(ts) => FirstOf(ts)'
    BY <2>2 DEF FirstOf
  <2> QED BY <2>2, <2>3, <2>4, <2>5, FirstStays
<1>3. CASE (RecordsFile \/ FileFails) \/ FetchesThread
  <2>1. HasRow(First.ts) /\ First = ItemOf(1) /\ UNCHANGED <<said, events, rows, unsure>>
        /\ \/ InHand' = InHand /\ \A k : ItemOf(k)' = ItemOf(k)
           \/ \E m : ThreadTaken(m)
    BY <1>3, GoesOnTakes
  <2>2. ASSUME NEW ts, IsGoing(ts), ~HasRow(ts) PROVE IsGoing(ts)'
    <3>1. PICK k \in InHand : ItemOf(k).ts = ts
      BY <2>2 DEF IsGoing
    <3>2. k # 1
      BY <2>1, <2>2, <3>1
    <3>3. CASE InHand' = InHand /\ \A j : ItemOf(j)' = ItemOf(j)
      BY <3>1, <3>3 DEF IsGoing
    <3>4. ASSUME NEW m, ThreadTaken(m) PROVE IsGoing(ts)'
      <4>1. PICK j \in InHand' : j = k + m - 1 /\ ItemOf(j)' = ItemOf(k)
        BY <3>1, <3>2, <3>4 DEF ThreadTaken
      <4> QED BY <3>1, <4>1 DEF IsGoing
    <3> QED BY <2>1, <3>3, <3>4
  <2>3. \A ts : FirstOf(ts) => FirstOf(ts)'
    BY <2>1 DEF FirstOf
  <2> QED BY <2>1, <2>2, <2>3, FirstStays DEF HasRow
<1>4. CASE Handled
  <2>1. UNCHANGED <<said, events, rows, unsure>> /\ handling.items = <<>>
    BY <1>4 DEF Handled, channel, theRecord, notes
  <2>2. \A ts : ~IsGoing(ts)
    BY <2>1 DEF IsGoing, InHand
  <2>3. \A ts : FirstOf(ts) => FirstOf(ts)'
    BY <2>1 DEF FirstOf
  <2> QED BY <2>1, <2>2, <2>3, FirstStays DEF HasRow
<1> QED BY <1>1, <1>2, <1>3, <1>4

LEMMA NextFirst == ASSUME SlackShape, SlackShape', FirstComes, SlackNext PROVE FirstComes'
<1>1. CASE SlackSays \/ NatsumiPosts
  <2>1. \E by : Says(by) /\ UNCHANGED <<handling, rows>>
    BY <1>1 DEF SlackSays, NatsumiPosts, theRecord
  <2> QED BY <2>1, FirstSays
<1>2. CASE RecordOwn
  <2>1. posting \in Nat
    BY <1>2, SaidFacts DEF RecordOwn, SlackShape, SlackTypes
  <2>2. PICK e \in SlackEvents : e = Event("message", posting, 0)
    BY <2>1 DEF Event, SlackEvents
  <2>3. events' = Append(events, e) /\ UNCHANGED <<said, handling, rows>> /\ unsure \subseteq unsure'
    BY <1>2, <2>2 DEF RecordOwn, channel, theRecord
  <2> QED BY <2>3, FirstAside
<1>3. ASSUME NEW ts \in DOMAIN said, SlackEdits(ts) \/ SlackDeletes(ts) \/ \E who \in Speakers : SlackReacts(ts, who)
      PROVE  FirstComes'
  <2>1. PICK message, type, x : Altered(ts, message, type, x)
    BY <1>3 DEF SlackEdits, SlackDeletes, SlackReacts
  <2>2. UNCHANGED <<handling, rows>> /\ said' = [said EXCEPT ![ts] = message] /\ unsure \subseteq unsure'
    BY <2>1 DEF Altered, theRecord, SlackSends
  <2>3. DOMAIN said' = DOMAIN said
    BY <2>2 DEF SlackShape, SlackTypes
  <2>4. events' = events \/ \E e \in SlackEvents : events' = Append(events, e)
    <3>1. events' \in Seq(SlackEvents) /\ events \in Seq(SlackEvents)
      BY DEF SlackShape, SlackTypes
    <3>2. PICK e : e = Event(type, ts, x)
      OBVIOUS
    <3>3. events' = events \/ events' = Append(events, e)
      BY <2>1, <3>2 DEF Altered, SlackSends
    <3>4. ASSUME events' = Append(events, e) PROVE e \in SlackEvents
      <4>1. Len(events) \in Nat /\ Len(events') = Len(events) + 1 /\ events'[Len(events) + 1] = e
        BY <3>1, <3>4
      <4>2. Len(events) + 1 \in 1..Len(events')
        BY <4>1
      <4> QED BY <3>1, <4>1, <4>2
    <3> QED BY <3>3, <3>4
  <2> QED BY <2>2, <2>3, <2>4, FirstAside
<1>4. ASSUME NEW i \in DOMAIN events, SlackRepeats(i) PROVE FirstComes'
  <2>1. PICK e \in SlackEvents : e = events[i]
    BY DEF SlackShape, SlackTypes
  <2>2. events' = Append(events, e) /\ UNCHANGED <<said, handling, rows>> /\ unsure \subseteq unsure'
    BY <1>4, <2>1 DEF SlackRepeats, channel, theRecord
  <2> QED BY <2>2, FirstAside
<1>5. CASE SlackStarts \/ SlackConnects \/ SocketCloses
  <2>1. UNCHANGED <<said, handling, rows, unsure>>
    BY <1>5 DEF SlackStarts, SlackConnects, SocketCloses, theRecord, notes
  <2>2. PICK e \in SlackEvents : e = Event("fill", 0, 0)
    BY DEF Event, SlackEvents
  <2>3. events' = events \/ events' = Append(events, e)
    BY <1>5, <2>2 DEF SlackStarts, SlackConnects, SocketCloses
  <2> QED BY <2>1, <2>3, FirstAside
<1>6. CASE SlackDies
  BY <1>6, FirstDies
<1>7. CASE \/ TakesMessage \/ TakesChanged \/ TakesDeleted \/ TakesReacted \/ TakesUnreacted
           \/ TakesFill \/ FillFails \/ EventFails
  BY <1>7, FirstTakes
<1>8. CASE FetchesParent \/ ParentFails \/ RecordsRow \/ (RecordsFile \/ FileFails) \/ FetchesThread \/ Handled
  BY <1>8, FirstHandled
<1> QED BY <1>1, <1>2, <1>3, <1>4, <1>5, <1>6, <1>7, <1>8 DEF SlackNext

LEMMA NextComes == ASSUME SlackShape, AllCome, FirstComes, SlackNext PROVE AllCome'
<1> SUFFICES ASSUME NEW ts \in TimeStamps, NEW kind \in Aspects, NEW who \in Whoever, Watched(ts, kind)' PROVE ComesTrue(ts, kind, who)'
  BY DEF AllCome
<1>1. CASE SlackSays \/ NatsumiPosts
  <2>1. \E by : Says(by) /\ UNCHANGED <<handling, rows>>
    BY <1>1 DEF SlackSays, NatsumiPosts, theRecord
  <2> QED BY <2>1, SaysComes
<1>2. CASE RecordOwn
  BY <1>2, OwnComes
<1>3. ASSUME NEW t \in DOMAIN said, SlackEdits(t) \/ SlackDeletes(t) \/ \E w \in Speakers : SlackReacts(t, w)
      PROVE  ComesTrue(ts, kind, who)'
  BY <1>3, AlterationsCome
<1>4. ASSUME NEW i \in DOMAIN events, SlackRepeats(i) PROVE ComesTrue(ts, kind, who)'
  BY <1>4, RepeatsCome
<1>5. CASE SlackStarts \/ SlackConnects \/ SocketCloses
  BY <1>5, SocketComes
<1>6. CASE SlackDies
  BY <1>6, DiesComes
<1>7. CASE TakesMessage \/ TakesChanged
  BY <1>7, OneComes
<1>8. CASE TakesDeleted \/ TakesReacted \/ TakesUnreacted
  BY <1>8, ChangesCome
<1>9. CASE TakesFill \/ FillFails \/ EventFails
  BY <1>9, FillComes
<1>10. CASE FetchesParent \/ ParentFails
  BY <1>10, ParentsCome
<1>11. CASE RecordsRow
  BY <1>11, RowComes
<1>12. CASE (RecordsFile \/ FileFails) \/ FetchesThread
  BY <1>12, GoesOnComes
<1>13. CASE Handled
  BY <1>13, DoneComes
<1> QED BY <1>1, <1>2, <1>3, <1>4, <1>5, <1>6, <1>7, <1>8, <1>9, <1>10, <1>11, <1>12, <1>13 DEF SlackNext

-----------------------------------------------------------------------------
(*                          the record altogether                          *)

SlackIInv == SlackShape /\ GoodRecord /\ WantedAll /\ AllCome /\ FirstComes

LEMMA NoFile == ASSUME \A ts \in TimeStamps : ~HasRow(ts), NEW day PROVE DayFile(rows, day) = <<>>
<1>1. RowsOf(rows, day) = {}
  BY DEF RowsOf, HasRow
<1>2. Cardinality(RowsOf(rows, day)) = 0
  BY <1>1, FS_EmptySet
<1>3. DOMAIN LinesOf(rows, day) = 1..0
  BY <1>2 DEF LinesOf, InOrder
<1> DEFINE lines == LinesOf(rows, day)
           f == [i \in DOMAIN lines |-> Entry(rows, lines, lines[i])]
<1>4. f = DayFile(rows, day)
  BY DEF DayFile
<1>5. f \in [1..0 -> {}]
  BY <1>3
<1> HIDE DEF f
<1>6. f \in Seq({}) /\ Len(f) = 0
  BY <1>5
<1> QED BY <1>4, <1>6, EmptySeq

LEMMA InitRecord == SlackInit => SlackIInv
<1> SUFFICES ASSUME SlackInit PROVE SlackIInv
  OBVIOUS
<1>1. /\ said = <<>> /\ events = <<>> /\ handling = AtRest /\ toldOf = <<>> /\ spoiled = {} /\ hushed = {} /\ marked = {}
      /\ rows = [ts \in TimeStamps |-> NoRow] /\ days = [day \in Range(DaySaid) |-> <<>>]
  BY DEF SlackInit
<1>2. SlackShape
  BY InitShape
<1>3. \A ts \in TimeStamps : ~HasRow(ts)
  BY <1>1 DEF HasRow
<1>4. DOMAIN said = {}
  BY <1>1
<1>5. GoodRecord
  <2>1. LinesApart
    BY <1>3 DEF LinesApart
  <2>2. ToldOfRows
    BY <1>1 DEF ToldOfRows
  <2>3. FilesSay
    BY <1>1, <1>3, NoFile DEF FilesSay
  <2>4. MentionsGo
    BY <1>4 DEF MentionsGo
  <2> QED BY <2>1, <2>2, <2>3, <2>4 DEF GoodRecord
<1>6. WantedAll
  BY <1>4 DEF WantedAll, WantedLater, WantedComes, WantedFirst, Wanting
<1>7. AllCome /\ FirstComes
  BY <1>4 DEF AllCome, FirstComes, Watched
<1> QED BY <1>2, <1>5, <1>6, <1>7 DEF SlackIInv

LEMMA RecordStays == SlackIInv /\ UNCHANGED slackVars => SlackIInv'
<1> SUFFICES ASSUME SlackIInv, UNCHANGED slackVars PROVE SlackIInv'
  OBVIOUS
<1> USE DEF SlackIInv
<1>1. SlackShape'
  BY SameShape
<1>2. UNCHANGED <<talk, said, socket, posting, events, handling, rows, days, marked, toldOf, unsure, hushed, spoiled, missed, behind>>
  BY DEF slackVars, channel, theRecord, notes
<1>3. GoodRecord'
  BY <1>1, <1>2, RecordAside
<1>4. WantedAll'
  BY <1>2, WantedAside
<1>5. FirstComes'
  BY <1>2, FirstAside
<1>6. AllCome'
  <2> SUFFICES ASSUME NEW ts \in TimeStamps, NEW kind \in Aspects, NEW who \in Whoever, Watched(ts, kind)' PROVE ComesTrue(ts, kind, who)'
    BY DEF AllCome
  <2>1. Watched(ts, kind) /\ Holds(ts, kind, who)' = Holds(ts, kind, who)
    BY <1>2 DEF Watched, Holds, Yes
  <2>2. ComesTrue(ts, kind, who)
    BY <2>1 DEF AllCome
  <2>3. Agrees(ts, kind, who) => Agrees(ts, kind, who)'
    BY <1>2, <2>1, SettledStays
  <2> QED BY <1>2, <2>1, <2>2, <2>3, ComesHandled
<1> QED BY <1>1, <1>3, <1>4, <1>5, <1>6

LEMMA NextIsGood == SlackIInv /\ SlackNext => SlackIInv'
<1> SUFFICES ASSUME SlackIInv, SlackNext PROVE SlackIInv'
  OBVIOUS
<1> USE DEF SlackIInv
<1>1. SlackShape'
  BY NextShape
<1> QED BY <1>1, NextRecord, NextWanted, NextComes, NextFirst

(* The inductive invariant of the record of a channel: what is still to be *)
(* handled of a message, in its order, ends in what Slack holds of it.     *)
THEOREM SlackInvariant == SlackSpec => []SlackIInv
<1>1. SlackIInv /\ [SlackNext]_slackVars => SlackIInv'
  BY RecordStays, NextIsGood
<1> QED BY <1>1, InitRecord, PTL DEF SlackSpec

LEMMA RecordIsSafe == SlackIInv => SlackSafety
<1> SUFFICES ASSUME SlackIInv PROVE SlackSafety
  OBVIOUS
<1> USE DEF SlackIInv, SlackShape, GoodRecord
<1>1. ToldTruly
  <2> SUFFICES ASSUME NEW i \in DOMAIN toldOf
               PROVE  /\ \A j \in DOMAIN toldOf : toldOf[j].ts = toldOf[i].ts => i = j
                      /\ Resolved(toldOf[i].day, toldOf[i].line) = toldOf[i].ts
                      /\ toldOf[i].day \notin spoiled => days[toldOf[i].day][toldOf[i].line + 1].ts = toldOf[i].ts
    BY DEF ToldTruly
  <2>1. PICK t : t = toldOf[i]
    OBVIOUS
  <2>2. HasRow(t.ts) /\ t.day = rows[t.ts].day /\ t.line = LineNow(t.ts) /\ (t.day \notin spoiled => InFile(t))
    BY <2>1 DEF ToldOfRows
  <2>3. t.ts \in TimeStamps
    BY <2>1, ToldFacts
  <2>4. Resolved(t.day, t.line) = t.ts
    BY <2>2, <2>3, LineInFile
  <2>5. \A j \in DOMAIN toldOf : toldOf[j].ts = t.ts => i = j
    BY <2>1 DEF ToldOfRows
  <2> QED BY <2>1, <2>2, <2>4, <2>5 DEF InFile
<1>2. FilesFollow
  BY DEF FilesFollow, FilesSay, AtRest, SlackTypes
<1>3. RecordFollows
  <2> SUFFICES ASSUME handling = AtRest, events = <<>>, NEW ts \in DOMAIN said \ unsure, HasRow(ts)
               PROVE  rows[ts].text = said[ts].text /\ rows[ts].deleted = said[ts].deleted
                        /\ (said[ts].deleted \/ rows[ts].reacted = said[ts].reacted)
    BY DEF RecordFollows, Caught
  <2>1. ts \in TimeStamps /\ said[ts] \in SaidOnes /\ rows[ts] \in SlackRows
    BY SaidFacts, RowFacts
  <2>2. ToRecord = {} /\ DOMAIN events = {}
    BY AtRestFits
  <2>3. ASSUME NEW kind \in Aspects, NEW who \in Whoever, Watched(ts, kind) PROVE RowSays(ts, kind, who) = Holds(ts, kind, who)
    <3>1. ComesTrue(ts, kind, who)
      BY <2>1, <2>3 DEF AllCome
    <3>2. Agrees(ts, kind, who)
      BY <2>2, <3>1 DEF ComesTrue
    <3> QED BY <2>2, <3>2 DEF Agrees
  <2>4. "not said" \in Whoever
    BY DEF Whoever, NotSaid
  <2>5. Watched(ts, "text") /\ Watched(ts, "deleted") /\ (~said[ts].deleted => Watched(ts, "reacted"))
    BY DEF Watched
  <2>6. rows[ts].text = said[ts].text
    <3>1. RowSays(ts, "text", "not said") = Holds(ts, "text", "not said")
      BY <2>3, <2>4, <2>5 DEF Aspects
    <3> QED BY <3>1 DEF RowSays, Holds
  <2>7. rows[ts].deleted = said[ts].deleted
    <3>1. RowSays(ts, "deleted", "not said") = Holds(ts, "deleted", "not said")
      BY <2>3, <2>4, <2>5 DEF Aspects
    <3>2. rows[ts].deleted \in BOOLEAN /\ said[ts].deleted \in BOOLEAN
      BY <2>1 DEF SaidOnes, SlackRows
    <3>3. Yes(rows[ts].deleted) = Yes(said[ts].deleted)
      BY <3>1 DEF RowSays, Holds
    <3> QED BY <3>2, <3>3 DEF Yes
  <2>8. ASSUME ~said[ts].deleted PROVE rows[ts].reacted = said[ts].reacted
    <3>1. ASSUME NEW who \in Speakers PROVE who \in rows[ts].reacted <=> who \in said[ts].reacted
      <4>1. RowSays(ts, "reacted", who) = Holds(ts, "reacted", who)
        BY <2>3, <2>5, <2>8 DEF Aspects, Whoever
      <4>2. Yes(who \in rows[ts].reacted) = Yes(who \in said[ts].reacted)
        BY <4>1 DEF RowSays, Holds, ReactedOf
      <4> QED BY <4>2 DEF Yes
    <3>2. rows[ts].reacted \subseteq Speakers /\ said[ts].reacted \subseteq Speakers
      BY <2>1 DEF SaidOnes, SlackRows
    <3> QED BY <3>1, <3>2
  <2> QED BY <2>6, <2>7, <2>8
<1>4. NoneMissed
  BY NoGapLeft DEF WantedAll
<1>5. MentionsAreTold
  <2> SUFFICES ASSUME NEW ts \in DOMAIN said, HasRow(ts), ForHer(ts), ts \notin hushed, ts \notin marked
               PROVE  \E i \in DOMAIN handling.items : handling.items[i].ts = ts
    BY DEF MentionsAreTold
  <2>1. handling.at = "write" /\ First.ts = ts
    BY DEF MentionsGo
  <2>2. handling.items # <<>>
    BY <2>1 DEF HandlingShape
  <2>3. First = ItemOf(1) /\ 1 \in InHand
    BY <2>2, HandlingFacts
  <2> QED BY <2>1, <2>3 DEF ItemOf, InHand
<1> QED BY <1>1, <1>2, <1>3, <1>4, <1>5 DEF SlackSafety

(* For anything said in a channel and any trouble around it: what was told *)
(* was told once and of a place that stays its own, the files follow the   *)
(* rows, a recorded message comes to read as in Slack, no fill-in leaves a *)
(* gap and no mention is lost.                                             *)
THEOREM SlackIsSafe == SlackSpec => []SlackSafety
BY SlackInvariant, RecordIsSafe, PTL

LEMMA RecordIsTyped == SlackIInv => SlackTypeOK
<1> SUFFICES ASSUME SlackIInv PROVE SlackTypeOK
  OBVIOUS
<1>1. SlackTypes
  BY DEF SlackIInv, SlackShape
<1>2. ASSUME NEW ts \in TimeStamps, HasRow(ts) PROVE rows[ts].day \in DOMAIN days /\ rows[ts].line \in Nat
  BY <1>1, <1>2, RowFacts DEF SlackTypes, SlackRows
<1>3. handling.at \in {"idle", "next", "write", "thread"}
  BY <1>1, HandlingFacts
<1> QED BY <1>1, <1>2, <1>3 DEF SlackTypes, SlackTypeOK

(* The variables of the record keep their types. *)
THEOREM SlackTyped == SlackSpec => []SlackTypeOK
BY SlackInvariant, RecordIsTyped, PTL
=============================================================================
