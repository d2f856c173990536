-------------------------- MODULE DeviceSync_proofs ---------------------------
(***************************************************************************)
(* The owner's devices proved for any messages, any buffer and any number  *)
(* of connections, processes and replies: what is sent is recorded once,   *)
(* a device shows the conversation in order and without a gap, nothing is  *)
(* dropped between a device and its stream, and what a synced device       *)
(* shows as being sent is on its way.                                      *)
(* The argument is about the stream as it was published, of which the      *)
(* buffer keeps the end: from where the device has followed it, what comes *)
(* after leads from the messages the device shows to all there are.        *)
(***************************************************************************)
EXTENDS DeviceSync, TLAPS, FiniteSetTheorems, SequenceTheorems

ReadBodies == [through : Nat, unread : Nat]
SyncIds == {"sync"} \X Nat
SendIds == {"send"} \X Requests
ReadIds == {"read"} \X Nat
StreamEvents ==
       [kind : {"message"}, to : {Nobody}, body : [place : Nat \ {0}, own : BOOLEAN]]
  \cup [kind : {"completed"}, to : {Nobody}, body : Nat]
  \cup [kind : {"read"}, to : {Nobody}, body : ReadBodies]
  \cup [kind : {"snapshot"}, to : SyncIds, body : [shown : Nat, pending : SUBSET Nat, read : ReadBodies]]
  \cup [kind : {"accepted"}, to : SyncIds, body : {0}]
  \cup [kind : {"accepted"}, to : SendIds, body : [place : Nat, pending : BOOLEAN]]
  \cup [kind : {"accepted"}, to : ReadIds, body : ReadBodies]
  \cup [kind : {"unavailable"}, to : SyncIds \cup SendIds \cup ReadIds, body : {0}]
Positions == Nat \X Nat
SentEvents == [at : Positions, ev : StreamEvents]
Commands ==
       [kind : {"sync"}, id : SyncIds, body : Positions]
  \cup [kind : {"send"}, id : SendIds, body : {0}]
  \cup [kind : {"read"}, id : ReadIds, body : Nat]

Hubs == [epoch : Nat \ {0}, loop : {"able", "unable"}, last : Nat, log : Seq(StreamEvents),
         sink : 0..MaxLinks, owed : Seq(StreamEvents), of : Nat]
LinkStates == [up : {"unused", "open", "closing", "gone"}, bound : BOOLEAN, heard : BOOLEAN,
               code : {"none", "replaced", "closed"}, out : Seq(Commands), in : Seq(SentEvents)]
Clients == [kind : Kinds, phase : {"waiting", "syncing", "ready", "unavailable", "replaced"},
            conn : 0..MaxLinks, at : Positions, asked : Nat, syncs : Nat, shown : Seq(Nat),
            pending : SUBSET Nat, through : Nat, unread : Nat,
            sent : [Requests -> {"unsent", "sending", "done", "failed"}],
            reads : SUBSET Nat, tries : Nat]

\* What the variables hold.
DeviceTypes ==
  /\ history \in Seq(Requests \cup {Reply}) /\ over \subseteq Nat /\ readTo \in Nat
  /\ hub \in Hubs /\ link \in [Links -> LinkStates]
  /\ client \in Clients /\ IsFiniteSet(client.reads)

In == link[client.conn].in
Out == link[client.conn].out
Up == link[client.conn].up

\* The connection the stream is sent on is the device's; one not bound yet has heard nothing.
LinksInTurn ==
  /\ \A n \in Links : n > client.conn =>
       link[n] = [up |-> "unused", bound |-> FALSE, heard |-> TRUE, code |-> "none", out |-> <<>>, in |-> <<>>]
  /\ \A n \in Links : link[n].bound <=> hub.sink = n
  /\ \A n \in Links : link[n].bound => link[n].up # "unused"
  /\ \A n \in Links : ~link[n].bound /\ link[n].up = "open" => link[n].in = <<>>
  /\ Active => client.conn # 0 /\ link[client.conn].heard /\ Up # "unused"
  /\ client.phase = "ready" /\ Up = "open" => Able /\ link[client.conn].bound

\* How much of the conversation an event shows.
Ext(e) == IF e.kind = "message" THEN e.body.place ELSE IF e.kind = "snapshot" THEN e.body.shown ELSE 0
Owes(o, q) == \E i \in DOMAIN o : o[i].kind = "message" /\ o[i].body.place = q

\* After s, no message of S comes before the one ahead of it, to a device that shows k; a snapshot takes nothing back.
Coherent(S, s, k) ==
  \A t \in (s + 1)..Len(S) :
    /\ S[t].kind = "message" =>
         Ext(S[t]) <= k + 1 \/ \E u \in (s + 1)..(t - 1) : Ext(S[t]) <= Ext(S[u]) + 1
    /\ S[t].kind = "snapshot" =>
         k <= Ext(S[t]) /\ \A u \in (s + 1)..(t - 1) : Ext(S[u]) <= Ext(S[t])

\* Of H messages, every one is shown, comes after s, or is still owed.
Complete(S, s, k, H, o) ==
  \A q \in 1..H : q <= k \/ (\E t \in (s + 1)..Len(S) : q <= Ext(S[t])) \/ Owes(o, q)

Leads(S, s, k, H, o) == Coherent(S, s, k) /\ Complete(S, s, k, H, o)
Bodies(in) == [i \in 1..Len(in) |-> in[i].ev]

\* What is owed comes in order, and only of a loop that takes commands.
OwedInOrder ==
  /\ Able \/ hub.owed = <<>>
  /\ \A i \in DOMAIN hub.owed : hub.owed[i].kind \in {"message", "read"} /\ Ext(hub.owed[i]) <= Len(history)
  /\ \A i, j \in DOMAIN hub.owed :
       i < j /\ hub.owed[i].kind = "message" /\ hub.owed[j].kind = "message" => Ext(hub.owed[i]) < Ext(hub.owed[j])

\* What is on its way on the device's connection: refusals, or what comes next after what the device has.
Refusals(in) == \A i \in DOMAIN in : in[i].ev.kind = "unavailable"
Chained(in, at) ==
  \A i \in DOMAIN in :
    /\ in[i].ev.kind # "unavailable"
    /\ \/ in[i].ev.kind = "snapshot"
       \/ in[i].at = <<(IF i = 1 THEN at ELSE in[i - 1].at)[1], (IF i = 1 THEN at ELSE in[i - 1].at)[2] + 1>>
Reached(in, at) == IF in = <<>> THEN at ELSE in[Len(in)].at
Live == Able /\ Active /\ Up = "open" /\ link[client.conn].bound

Following ==
  /\ client.at[1] <= hub.epoch
  /\ Active =>
       /\ \A i \in DOMAIN In :
            /\ In[i].at[1] \in 1..hub.epoch /\ Ext(In[i].ev) <= Len(history)
            /\ In[i].at[1] = hub.epoch => (In[i].ev.kind = "unavailable" <=> ~Able)
            /\ Up = "open" => In[i].at[1] = hub.epoch
       /\ Refusals(In) \/ Chained(In, client.at)
       /\ Coherent(Bodies(In), 0, Len(client.shown))
       /\ \A i \in DOMAIN Out : Out[i].kind = "sync" /\ Out[i].body # Nowhere =>
            i = 1 /\ Out[i].body = client.at /\ ~link[client.conn].bound /\ In = <<>>
  /\ Live => /\ Reached(In, client.at) = <<hub.epoch, hub.last>>
             /\ Complete(Bodies(In), 0, Len(client.shown), Len(history), hub.owed)

\* What the device shows: the first messages of the conversation.
ShowsFirst == Len(client.shown) <= Len(history) /\ ShownInOrder

\* The stream of this process from its beginning: the buffer is its end, what is on its way is of it, and what
\* comes in it after the device's place, or after a snapshot on its way, leads to the whole conversation.
StreamOf(full) ==
  /\ Len(full) = hub.last /\ Len(hub.log) <= hub.last
  /\ \A i \in 1..Len(hub.log) : hub.log[i] = full[hub.last - Len(hub.log) + i]
  /\ \A t \in 1..hub.last : Ext(full[t]) <= Len(history) /\ (full[t].kind = "unavailable" <=> ~Able)
  /\ Able /\ client.at[1] = hub.epoch =>
       /\ client.at[2] <= hub.last
       /\ Leads(full, client.at[2], Len(client.shown), Len(history), hub.owed)
  /\ Able /\ Active => \A i \in DOMAIN In : In[i].at[1] = hub.epoch =>
       /\ In[i].at[2] \in 1..hub.last /\ In[i].ev = full[In[i].at[2]]
       /\ In[i].ev.kind = "snapshot" => Leads(full, In[i].at[2], Ext(In[i].ev), Len(history), hub.owed)
StreamLeads == \E full \in Seq(StreamEvents) : StreamOf(full)

DeviceIInv ==
  /\ DeviceTypes /\ RecordedOnce /\ LinksInTurn /\ OwedInOrder
  /\ Following /\ ShowsFirst /\ StreamLeads
  /\ SendsAreOnTheWay /\ AppReadsAreOnTheWay

-----------------------------------------------------------------------------
\* What the operators of the stream make of sequences.

LEMMA EventShape ==
  ASSUME NEW e \in StreamEvents
  PROVE  /\ e.kind \in {"message", "completed", "read", "snapshot", "accepted", "unavailable"}
         /\ Ext(e) \in Nat
         /\ e.kind = "message" => e.body.place \in Nat \ {0} /\ Ext(e) = e.body.place /\ e.body.own \in BOOLEAN
         /\ e.kind = "completed" => e.body \in Nat
         /\ e.kind = "read" => e.body \in ReadBodies
         /\ e.kind = "snapshot" => /\ e.body.shown \in Nat /\ Ext(e) = e.body.shown /\ e.to \in SyncIds
                                   /\ e.body.pending \in SUBSET Nat /\ e.body.read \in ReadBodies
         /\ e.kind \notin {"message", "snapshot"} => Ext(e) = 0
BY DEF StreamEvents, Ext

\* An answer is to what was asked, and says what that asks for.
LEMMA AnswerShape ==
  ASSUME NEW e \in StreamEvents
  PROVE  /\ e.kind = "accepted" =>
              \/ e.to \in SyncIds /\ e.body = 0
              \/ e.to \in SendIds /\ e.body.place \in Nat /\ e.body.pending \in BOOLEAN
              \/ e.to \in ReadIds /\ e.body \in ReadBodies
         /\ e.kind = "unavailable" => e.to \in SyncIds \cup SendIds \cup ReadIds
         /\ e.kind \in {"message", "completed", "read"} => e.to = Nobody
BY DEF StreamEvents

LEMMA MinOfTwo == ASSUME NEW a \in Nat, NEW b \in Nat PROVE Min({a, b}) \in Nat /\ Min({a, b}) <= b
<1>1. \E x \in {a, b} : \A y \in {a, b} : x <= y
  <2>1. CASE a <= b
    BY <2>1
  <2>2. CASE ~(a <= b)
    BY <2>2
  <2> QED BY <2>1, <2>2
<1> QED BY <1>1 DEF Min

\* The buffer is the end of what was published.
LEMMA KeptIsEnd ==
  ASSUME NEW S, NEW log \in Seq(S)
  PROVE  /\ Kept(log) \in Seq(S) /\ Len(Kept(log)) \in Nat /\ Len(Kept(log)) <= Len(log)
         /\ \A i \in 1..Len(Kept(log)) : Kept(log)[i] = log[Len(log) - Len(Kept(log)) + i]
<1> DEFINE m == Min({Capacity, Len(log)})
<1>0. Len(log) \in Nat /\ Capacity \in Nat
  BY LenProperties, DeviceAssumption
<1>1. m \in Nat /\ m <= Len(log)
  BY <1>0, MinOfTwo
<1> HIDE DEF m
<1>2. Kept(log) = SubSeq(log, Len(log) - m + 1, Len(log))
  BY DEF Kept, m
<1>3. \A i \in (Len(log) - m + 1)..Len(log) : log[i] \in S
  BY <1>0, <1>1, ElementOfSeq
<1>4. /\ SubSeq(log, Len(log) - m + 1, Len(log)) \in Seq(S)
      /\ Len(SubSeq(log, Len(log) - m + 1, Len(log))) =
           IF Len(log) - m + 1 <= Len(log) THEN Len(log) - (Len(log) - m + 1) + 1 ELSE 0
      /\ \A i \in 1..(Len(log) - (Len(log) - m + 1) + 1) :
           SubSeq(log, Len(log) - m + 1, Len(log))[i] = log[(Len(log) - m + 1) + i - 1]
  BY <1>0, <1>1, <1>3, SubSeqProperties
<1>5. Len(Kept(log)) = m
  BY <1>0, <1>1, <1>2, <1>4
<1>6. \A i \in 1..m : Kept(log)[i] = log[Len(log) - m + i]
  BY <1>0, <1>1, <1>2, <1>4
<1> QED BY <1>0, <1>1, <1>2, <1>4, <1>5, <1>6

\* The events as they are sent, one by one.
LEMMA TextsOfEvents ==
  ASSUME NEW h, h.epoch \in Nat, h.last \in Nat, NEW evs \in Seq(StreamEvents)
  PROVE  /\ Texts(h, evs) \in Seq(SentEvents) /\ Len(Texts(h, evs)) = Len(evs)
         /\ \A i \in 1..Len(evs) : Texts(h, evs)[i] = [at |-> <<h.epoch, h.last + i>>, ev |-> evs[i]]
<1>1. Len(evs) \in Nat /\ DOMAIN evs = 1..Len(evs)
  BY LenProperties
<1>2. \A i \in 1..Len(evs) : [at |-> <<h.epoch, h.last + i>>, ev |-> evs[i]] \in SentEvents
  BY <1>1, ElementOfSeq DEF SentEvents, Positions
<1>3. Texts(h, evs) = [i \in 1..Len(evs) |-> [at |-> <<h.epoch, h.last + i>>, ev |-> evs[i]]]
  BY <1>1 DEF Texts
<1>4. Texts(h, evs) \in [1..Len(evs) -> SentEvents]
  BY <1>2, <1>3
<1>5. Texts(h, evs) \in Seq(SentEvents)
  BY <1>1, <1>4, SeqDef
<1> QED BY <1>1, <1>3, <1>4, <1>5, LenProperties

LEMMA BodiesOfTexts ==
  ASSUME NEW in \in Seq(SentEvents)
  PROVE  /\ Bodies(in) \in Seq(StreamEvents) /\ Len(Bodies(in)) = Len(in) /\ Len(in) \in Nat
         /\ \A i \in 1..Len(in) : Bodies(in)[i] = in[i].ev
<1>1. Len(in) \in Nat
  BY LenProperties
<1>2. ASSUME NEW i \in 1..Len(in) PROVE in[i].ev \in StreamEvents
  <2>1. in[i] \in SentEvents
    BY ElementOfSeq
  <2> QED BY <2>1 DEF SentEvents
<1>3. Bodies(in) \in [1..Len(in) -> StreamEvents]
  BY <1>2 DEF Bodies
<1>4. Bodies(in) \in Seq(StreamEvents)
  BY <1>1, <1>3, SeqDef
<1> QED BY <1>1, <1>3, <1>4, LenProperties DEF Bodies

\* Two sequences one after the other.
LEMMA Joined ==
  ASSUME NEW S, NEW s \in Seq(S), NEW t \in Seq(S)
  PROVE  /\ s \o t \in Seq(S) /\ Len(s) \in Nat /\ Len(t) \in Nat /\ Len(s \o t) = Len(s) + Len(t)
         /\ \A i \in 1..Len(s) : (s \o t)[i] = s[i]
         /\ \A i \in 1..Len(t) : (s \o t)[Len(s) + i] = t[i]
         /\ \A i \in (Len(s) + 1)..(Len(s) + Len(t)) : (s \o t)[i] = t[i - Len(s)]
BY ConcatProperties, LenProperties

LEMMA BodiesJoined ==
  ASSUME NEW a \in Seq(SentEvents), NEW b \in Seq(SentEvents)
  PROVE  Bodies(a \o b) = Bodies(a) \o Bodies(b)
<1>1. /\ a \o b \in Seq(SentEvents) /\ Len(a) \in Nat /\ Len(b) \in Nat /\ Len(a \o b) = Len(a) + Len(b)
      /\ \A i \in 1..Len(a) : (a \o b)[i] = a[i]
      /\ \A i \in (Len(a) + 1)..(Len(a) + Len(b)) : (a \o b)[i] = b[i - Len(a)]
  BY Joined
<1>2. /\ Bodies(a \o b) \in Seq(StreamEvents) /\ Len(Bodies(a \o b)) = Len(a \o b)
      /\ \A i \in 1..Len(a \o b) : Bodies(a \o b)[i] = (a \o b)[i].ev
  BY <1>1, BodiesOfTexts
<1>3. /\ Bodies(a) \in Seq(StreamEvents) /\ Len(Bodies(a)) = Len(a)
      /\ \A i \in 1..Len(a) : Bodies(a)[i] = a[i].ev
      /\ Bodies(b) \in Seq(StreamEvents) /\ Len(Bodies(b)) = Len(b)
      /\ \A i \in 1..Len(b) : Bodies(b)[i] = b[i].ev
  BY BodiesOfTexts
<1>4. /\ Bodies(a) \o Bodies(b) \in Seq(StreamEvents)
      /\ Len(Bodies(a) \o Bodies(b)) = Len(a) + Len(b)
      /\ \A i \in 1..Len(a) : (Bodies(a) \o Bodies(b))[i] = Bodies(a)[i]
      /\ \A i \in (Len(a) + 1)..(Len(a) + Len(b)) : (Bodies(a) \o Bodies(b))[i] = Bodies(b)[i - Len(a)]
  <2> DEFINE A == Bodies(a) B == Bodies(b)
  <2>1. A \in Seq(StreamEvents) /\ B \in Seq(StreamEvents) /\ Len(A) = Len(a) /\ Len(B) = Len(b)
    BY <1>3
  <2> HIDE DEF A, B
  <2>2. /\ A \o B \in Seq(StreamEvents) /\ Len(A \o B) = Len(A) + Len(B)
        /\ \A i \in 1..Len(A) : (A \o B)[i] = A[i]
        /\ \A i \in (Len(A) + 1)..(Len(A) + Len(B)) : (A \o B)[i] = B[i - Len(A)]
    BY <2>1, Joined, ZenonT(90)
  <2>3. /\ A \o B \in Seq(StreamEvents) /\ Len(A \o B) = Len(a) + Len(b)
        /\ \A i \in 1..Len(a) : (A \o B)[i] = A[i]
        /\ \A i \in (Len(a) + 1)..(Len(a) + Len(b)) : (A \o B)[i] = B[i - Len(a)]
    BY <2>1, <2>2
  <2> QED BY <2>3 DEF A, B
<1>5. \A i \in 1..(Len(a) + Len(b)) : Bodies(a \o b)[i] = (Bodies(a) \o Bodies(b))[i]
  <2> SUFFICES ASSUME NEW i \in 1..(Len(a) + Len(b)) PROVE Bodies(a \o b)[i] = (Bodies(a) \o Bodies(b))[i]
    OBVIOUS
  <2>1. CASE i <= Len(a)
    BY <1>1, <1>2, <1>3, <1>4, <2>1
  <2>2. CASE ~(i <= Len(a))
    <3>1. i \in (Len(a) + 1)..(Len(a) + Len(b)) /\ i - Len(a) \in 1..Len(b)
      BY <1>1, <2>2
    <3> QED BY <1>1, <1>2, <1>3, <1>4, <3>1
  <2> QED BY <2>1, <2>2
<1> QED BY <1>1, <1>2, <1>4, <1>5, SeqEqual

-----------------------------------------------------------------------------
\* What leads a device to the whole conversation still does after more of it.

\* What is published, of a conversation that grows from H to H2 messages while o was owed and o2 is.
Fits(evs, H, o, H2, o2) ==
  /\ \A i \in 1..Len(evs) :
       /\ Ext(evs[i]) <= H2
       /\ evs[i].kind = "message" =>
            \/ Ext(evs[i]) = 1
            \/ Ext(evs[i]) - 1 \in 1..H /\ ~Owes(o, Ext(evs[i]) - 1)
            \/ \E j \in 1..(i - 1) : Ext(evs[i]) <= Ext(evs[j]) + 1
       /\ evs[i].kind = "snapshot" => H <= Ext(evs[i]) /\ \A j \in 1..(i - 1) : Ext(evs[j]) <= Ext(evs[i])
  /\ \A q \in 1..H2 : \/ q <= H /\ ~Owes(o, q)
                      \/ Owes(o2, q)
                      \/ \E i \in 1..Len(evs) : q <= Ext(evs[i])

LEMMA LeadsPublished ==
  ASSUME NEW S \in Seq(StreamEvents), NEW evs \in Seq(StreamEvents),
         NEW s \in Nat, NEW k \in Nat, NEW H \in Nat, NEW H2 \in Nat, NEW o, NEW o2,
         s <= Len(S), k <= H, \A t \in 1..Len(S) : Ext(S[t]) <= H,
         Leads(S, s, k, H, o), Fits(evs, H, o, H2, o2)
  PROVE  Leads(S \o evs, s, k, H2, o2)
<1> DEFINE T == S \o evs
<1>1. /\ T \in Seq(StreamEvents) /\ Len(S) \in Nat /\ Len(evs) \in Nat /\ Len(T) = Len(S) + Len(evs)
      /\ \A i \in 1..Len(S) : T[i] = S[i]
      /\ \A i \in 1..Len(evs) : T[Len(S) + i] = evs[i]
      /\ \A i \in (Len(S) + 1)..(Len(S) + Len(evs)) : T[i] = evs[i - Len(S)]
  BY Joined
<1>2. \A i \in 1..Len(T) : Ext(T[i]) \in Nat
  BY <1>1, ElementOfSeq, EventShape
<1> HIDE DEF T
<1>3. \A q \in 1..H : q <= k \/ (\E t \in (s + 1)..Len(S) : q <= Ext(T[t])) \/ Owes(o, q)
  BY <1>1 DEF Leads, Complete
<1>4. Coherent(T, s, k)
  <2> SUFFICES ASSUME NEW t \in (s + 1)..Len(T)
               PROVE  /\ T[t].kind = "message" =>
                           Ext(T[t]) <= k + 1 \/ \E u \in (s + 1)..(t - 1) : Ext(T[t]) <= Ext(T[u]) + 1
                      /\ T[t].kind = "snapshot" =>
                           k <= Ext(T[t]) /\ \A u \in (s + 1)..(t - 1) : Ext(T[u]) <= Ext(T[t])
    BY DEF Coherent
  <2>1. CASE t <= Len(S)
    <3>0. t \in (s + 1)..Len(S) /\ t \in 1..Len(S) /\ \A u \in (s + 1)..(t - 1) : u \in 1..Len(S)
      BY <1>1, <2>1
    <3>1. t \in (s + 1)..Len(S) /\ T[t] = S[t] /\ \A u \in (s + 1)..(t - 1) : T[u] = S[u]
      BY <1>1, <3>0
    <3>2. /\ S[t].kind = "message" =>
               Ext(S[t]) <= k + 1 \/ \E u \in (s + 1)..(t - 1) : Ext(S[t]) <= Ext(S[u]) + 1
          /\ S[t].kind = "snapshot" =>
               k <= Ext(S[t]) /\ \A u \in (s + 1)..(t - 1) : Ext(S[u]) <= Ext(S[t])
      BY <3>1 DEF Leads, Coherent
    <3> QED BY <3>1, <3>2
  <2>2. CASE ~(t <= Len(S))
    <3> DEFINE i == t - Len(S)
    <3>0. t \in (Len(S) + 1)..(Len(S) + Len(evs)) /\ i \in 1..Len(evs) /\ t = Len(S) + i
      BY <1>1, <2>2
    <3>1. i \in 1..Len(evs) /\ t = Len(S) + i /\ T[t] = evs[i]
      BY <1>1, <3>0
    <3>2. \A j \in 1..(i - 1) : Len(S) + j \in (s + 1)..(t - 1) /\ T[Len(S) + j] = evs[j]
      BY <1>1, <3>1
    <3> HIDE DEF i
    <3>3. ASSUME T[t].kind = "message"
          PROVE  Ext(T[t]) <= k + 1 \/ \E u \in (s + 1)..(t - 1) : Ext(T[t]) <= Ext(T[u]) + 1
      <4>1. \/ Ext(T[t]) = 1
            \/ Ext(T[t]) - 1 \in 1..H /\ ~Owes(o, Ext(T[t]) - 1)
            \/ \E j \in 1..(i - 1) : Ext(T[t]) <= Ext(evs[j]) + 1
        BY <3>1, <3>3 DEF Fits
      <4>2. CASE Ext(T[t]) = 1
        BY <4>2
      <4>3. CASE Ext(T[t]) - 1 \in 1..H /\ ~Owes(o, Ext(T[t]) - 1)
        <5>1. Ext(T[t]) - 1 <= k \/ \E u \in (s + 1)..Len(S) : Ext(T[t]) - 1 <= Ext(T[u])
          BY <1>3, <4>3
        <5>2. /\ \A u \in (s + 1)..Len(S) : u \in (s + 1)..(t - 1) /\ u \in 1..Len(T)
              /\ t \in 1..Len(T)
          BY <1>1, <3>1
        <5> QED BY <1>2, <5>1, <5>2
      <4>4. CASE \E j \in 1..(i - 1) : Ext(T[t]) <= Ext(evs[j]) + 1
        BY <3>2, <4>4
      <4> QED BY <4>1, <4>2, <4>3, <4>4
    <3>4. ASSUME T[t].kind = "snapshot"
          PROVE  k <= Ext(T[t]) /\ \A u \in (s + 1)..(t - 1) : Ext(T[u]) <= Ext(T[t])
      <4>1. H <= Ext(T[t]) /\ \A j \in 1..(i - 1) : Ext(evs[j]) <= Ext(T[t])
        BY <3>1, <3>4 DEF Fits
      <4>2. Ext(T[t]) \in Nat
        BY <1>1, <1>2
      <4>3. ASSUME NEW u \in (s + 1)..(t - 1) PROVE Ext(T[u]) <= Ext(T[t])
        <5>1. CASE u <= Len(S)
          <6>1. u \in 1..Len(S) /\ T[u] = S[u] /\ Ext(T[u]) \in Nat
            BY <1>1, <1>2, <5>1
          <6> QED BY <4>1, <4>2, <6>1
        <5>2. CASE ~(u <= Len(S))
          <6>1. u - Len(S) \in 1..(i - 1) /\ u \in (Len(S) + 1)..(Len(S) + Len(evs))
            BY <1>1, <3>1, <5>2
          <6>2. T[u] = evs[u - Len(S)]
            BY <1>1, <6>1
          <6> QED BY <4>1, <6>1, <6>2
        <5> QED BY <5>1, <5>2
      <4> QED BY <4>1, <4>2, <4>3
    <3> QED BY <3>3, <3>4
  <2> QED BY <2>1, <2>2
<1>5. Complete(T, s, k, H2, o2)
  <2> SUFFICES ASSUME NEW q \in 1..H2
               PROVE  q <= k \/ (\E t \in (s + 1)..Len(T) : q <= Ext(T[t])) \/ Owes(o2, q)
    BY DEF Complete
  <2>1. CASE q <= H /\ ~Owes(o, q)
    <3>1. q <= k \/ \E t \in (s + 1)..Len(S) : q <= Ext(T[t])
      BY <1>3, <2>1
    <3>2. \A t \in (s + 1)..Len(S) : t \in (s + 1)..Len(T)
      BY <1>1
    <3> QED BY <3>1, <3>2
  <2>2. CASE \E i \in 1..Len(evs) : q <= Ext(evs[i])
    <3>1. PICK i \in 1..Len(evs) : q <= Ext(evs[i])
      BY <2>2
    <3>2. Len(S) + i \in (s + 1)..Len(T) /\ T[Len(S) + i] = evs[i]
      BY <1>1
    <3> QED BY <3>1, <3>2
  <2> QED BY <2>1, <2>2 DEF Fits
<1> QED BY <1>4, <1>5 DEF Leads, T

\* The device takes the next event: what it shows grows by it, and the rest leads on from there.
LEMMA LeadsTaken ==
  ASSUME NEW S \in Seq(StreamEvents), NEW s \in Nat, s < Len(S), NEW k \in Nat, NEW k2 \in Nat,
         NEW H, NEW o, k <= k2, Ext(S[s + 1]) <= k2, k2 = k \/ k2 = Ext(S[s + 1])
  PROVE  /\ Coherent(S, s, k) => Coherent(S, s + 1, k2)
         /\ H \in Nat /\ Complete(S, s, k, H, o) => Complete(S, s + 1, k2, H, o)
<1>1. Len(S) \in Nat /\ \A i \in 1..Len(S) : Ext(S[i]) \in Nat
  BY LenProperties, ElementOfSeq, EventShape
<1>2. ASSUME Coherent(S, s, k) PROVE Coherent(S, s + 1, k2)
  <2> SUFFICES ASSUME NEW t \in (s + 2)..Len(S)
               PROVE  /\ S[t].kind = "message" =>
                           Ext(S[t]) <= k2 + 1 \/ \E u \in (s + 2)..(t - 1) : Ext(S[t]) <= Ext(S[u]) + 1
                      /\ S[t].kind = "snapshot" =>
                           k2 <= Ext(S[t]) /\ \A u \in (s + 2)..(t - 1) : Ext(S[u]) <= Ext(S[t])
    BY DEF Coherent
  <2>0. /\ t \in (s + 1)..Len(S) /\ t \in 1..Len(S) /\ Ext(S[t]) \in Nat
        /\ s + 1 \in (s + 1)..(t - 1) /\ s + 1 \in 1..Len(S) /\ Ext(S[s + 1]) \in Nat
        /\ \A u \in (s + 1)..(t - 1) : u = s + 1 \/ u \in (s + 2)..(t - 1)
        /\ \A u \in (s + 2)..(t - 1) : u \in (s + 1)..(t - 1)
    BY <1>1
  <2>1. /\ S[t].kind = "message" =>
             Ext(S[t]) <= k + 1 \/ \E u \in (s + 1)..(t - 1) : Ext(S[t]) <= Ext(S[u]) + 1
        /\ S[t].kind = "snapshot" =>
             k <= Ext(S[t]) /\ \A u \in (s + 1)..(t - 1) : Ext(S[u]) <= Ext(S[t])
    BY <1>2, <2>0 DEF Coherent
  <2>2. S[t].kind = "message" =>
          Ext(S[t]) <= k2 + 1 \/ \E u \in (s + 2)..(t - 1) : Ext(S[t]) <= Ext(S[u]) + 1
    BY <2>0, <2>1
  <2>3. S[t].kind = "snapshot" =>
          k2 <= Ext(S[t]) /\ \A u \in (s + 2)..(t - 1) : Ext(S[u]) <= Ext(S[t])
    BY <2>0, <2>1
  <2> QED BY <2>2, <2>3
<1>3. ASSUME H \in Nat, Complete(S, s, k, H, o) PROVE Complete(S, s + 1, k2, H, o)
  <2> SUFFICES ASSUME NEW q \in 1..H
               PROVE  q <= k2 \/ (\E t \in (s + 2)..Len(S) : q <= Ext(S[t])) \/ Owes(o, q)
    BY DEF Complete
  <2>0. \A t \in (s + 1)..Len(S) : t = s + 1 \/ t \in (s + 2)..Len(S)
    BY <1>1
  <2>1. q <= k \/ (\E t \in (s + 1)..Len(S) : q <= Ext(S[t])) \/ Owes(o, q)
    BY <1>3 DEF Complete
  <2>2. s + 1 \in 1..Len(S) /\ Ext(S[s + 1]) \in Nat
    BY <1>1
  <2> QED BY <2>0, <2>1, <2>2
<1> QED BY <1>2, <1>3

\* A sequence without its first event, and one that is cut off.
LEMMA LeadsInTail ==
  ASSUME NEW S \in Seq(StreamEvents), NEW T \in Seq(StreamEvents), NEW k \in Nat, NEW H, NEW o,
         S # <<>>, Len(T) = Len(S) - 1, \A i \in 1..Len(T) : T[i] = S[i + 1]
  PROVE  /\ Coherent(S, 1, k) => Coherent(T, 0, k)
         /\ Complete(S, 1, k, H, o) => Complete(T, 0, k, H, o)
<1>1. Len(S) \in Nat /\ Len(T) \in Nat
  BY LenProperties
<1>2. ASSUME Coherent(S, 1, k) PROVE Coherent(T, 0, k)
  <2> SUFFICES ASSUME NEW t \in 1..Len(T)
               PROVE  /\ T[t].kind = "message" =>
                           Ext(T[t]) <= k + 1 \/ \E u \in 1..(t - 1) : Ext(T[t]) <= Ext(T[u]) + 1
                      /\ T[t].kind = "snapshot" =>
                           k <= Ext(T[t]) /\ \A u \in 1..(t - 1) : Ext(T[u]) <= Ext(T[t])
    BY DEF Coherent
  <2>1. /\ t + 1 \in (1 + 1)..Len(S) /\ T[t] = S[t + 1]
        /\ \A u \in 1..(t - 1) : u + 1 \in (1 + 1)..((t + 1) - 1) /\ T[u] = S[u + 1]
        /\ \A u \in (1 + 1)..((t + 1) - 1) : u - 1 \in 1..(t - 1) /\ T[u - 1] = S[u]
    BY <1>1
  <2>2. /\ S[t + 1].kind = "message" =>
             Ext(S[t + 1]) <= k + 1 \/ \E u \in (1 + 1)..((t + 1) - 1) : Ext(S[t + 1]) <= Ext(S[u]) + 1
        /\ S[t + 1].kind = "snapshot" =>
             k <= Ext(S[t + 1]) /\ \A u \in (1 + 1)..((t + 1) - 1) : Ext(S[u]) <= Ext(S[t + 1])
    BY <1>2, <2>1 DEF Coherent
  <2> QED BY <2>1, <2>2
<1>3. ASSUME Complete(S, 1, k, H, o) PROVE Complete(T, 0, k, H, o)
  <2>1. \A t \in (1 + 1)..Len(S) : t - 1 \in (0 + 1)..Len(T) /\ T[t - 1] = S[t]
    BY <1>1
  <2> QED BY <1>3, <2>1 DEF Complete
<1> QED BY <1>2, <1>3

LEMMA CoherentCut ==
  ASSUME NEW S \in Seq(StreamEvents), NEW T \in Seq(StreamEvents), NEW k \in Nat,
         Len(T) <= Len(S), \A i \in 1..Len(T) : T[i] = S[i], Coherent(S, 0, k)
  PROVE  Coherent(T, 0, k)
<1>1. Len(S) \in Nat /\ Len(T) \in Nat
  BY LenProperties
<1>2. \A t \in 1..Len(T) : t \in 1..Len(S) /\ T[t] = S[t] /\ \A u \in 1..(t - 1) : u \in 1..Len(T) /\ T[u] = S[u]
  BY <1>1
<1> QED BY <1>2 DEF Coherent

\* The end of a sequence leads as the whole does from there.
LEMMA LeadsFromEnd ==
  ASSUME NEW S \in Seq(StreamEvents), NEW T \in Seq(StreamEvents), NEW s \in Nat, NEW k \in Nat, NEW H, NEW o,
         s <= Len(S), Len(T) = Len(S) - s, \A i \in 1..Len(T) : T[i] = S[s + i], Leads(S, s, k, H, o)
  PROVE  Leads(T, 0, k, H, o)
<1>1. Len(S) \in Nat /\ Len(T) \in Nat
  BY LenProperties
<1>2. Coherent(T, 0, k)
  <2> SUFFICES ASSUME NEW t \in 1..Len(T)
               PROVE  /\ T[t].kind = "message" =>
                           Ext(T[t]) <= k + 1 \/ \E u \in 1..(t - 1) : Ext(T[t]) <= Ext(T[u]) + 1
                      /\ T[t].kind = "snapshot" =>
                           k <= Ext(T[t]) /\ \A u \in 1..(t - 1) : Ext(T[u]) <= Ext(T[t])
    BY DEF Coherent
  <2>0. /\ s + t \in (s + 1)..Len(S) /\ T[t] = S[s + t]
        /\ \A u \in 1..(t - 1) : s + u \in (s + 1)..((s + t) - 1) /\ u \in 1..Len(T)
        /\ \A u \in (s + 1)..((s + t) - 1) : u - s \in 1..(t - 1) /\ u - s \in 1..Len(T) /\ u = s + (u - s)
    BY <1>1, SMTT(30)
  <2>1. /\ s + t \in (s + 1)..Len(S) /\ T[t] = S[s + t]
        /\ \A u \in 1..(t - 1) : s + u \in (s + 1)..((s + t) - 1) /\ T[u] = S[s + u]
        /\ \A u \in (s + 1)..((s + t) - 1) : u - s \in 1..(t - 1) /\ T[u - s] = S[u]
    BY <2>0
  <2>2. /\ S[s + t].kind = "message" =>
             Ext(S[s + t]) <= k + 1 \/ \E u \in (s + 1)..((s + t) - 1) : Ext(S[s + t]) <= Ext(S[u]) + 1
        /\ S[s + t].kind = "snapshot" =>
             k <= Ext(S[s + t]) /\ \A u \in (s + 1)..((s + t) - 1) : Ext(S[u]) <= Ext(S[s + t])
    BY <2>1 DEF Leads, Coherent
  <2> QED BY <2>1, <2>2
<1>3. Complete(T, 0, k, H, o)
  <2>1. \A t \in (s + 1)..Len(S) : t - s \in (0 + 1)..Len(T) /\ T[t - s] = S[t]
    BY <1>1
  <2> QED BY <2>1 DEF Leads, Complete
<1> QED BY <1>2, <1>3 DEF Leads

-----------------------------------------------------------------------------
\* What publishing does to the process and its connections.

LEMMA PublishedHub ==
  ASSUME NEW h \in Hubs, NEW l \in [Links -> LinkStates], NEW evs \in Seq(StreamEvents), Publishes(h, l, evs)
  PROVE  /\ hub' \in Hubs /\ hub'.epoch = h.epoch /\ hub'.loop = h.loop /\ hub'.sink = h.sink
         /\ hub'.owed = h.owed /\ hub'.of = h.of
         /\ hub'.last = h.last + Len(evs) /\ hub'.log = Kept(h.log \o evs)
<1>1. h.log \o evs \in Seq(StreamEvents) /\ Len(evs) \in Nat
  BY Joined DEF Hubs
<1>2. Kept(h.log \o evs) \in Seq(StreamEvents)
  BY <1>1, KeptIsEnd
<1>3. hub' = [h EXCEPT !.log = Kept(h.log \o evs), !.last = h.last + Len(evs)]
  BY DEF Publishes
<1>4. h.last + Len(evs) \in Nat
  BY <1>1 DEF Hubs
<1> HIDE DEF Kept
<1> QED BY <1>2, <1>3, <1>4 DEF Hubs

LEMMA PublishedLink ==
  ASSUME NEW h \in Hubs, NEW l \in [Links -> LinkStates], NEW evs \in Seq(StreamEvents), Publishes(h, l, evs)
  PROVE  /\ link' \in [Links -> LinkStates]
         /\ \A k \in Links :
              /\ link'[k].up = l[k].up /\ link'[k].bound = l[k].bound /\ link'[k].heard = l[k].heard
              /\ link'[k].code = l[k].code /\ link'[k].out = l[k].out
              /\ k = h.sink /\ l[k].up = "open" /\ l[k].heard => link'[k].in = l[k].in \o Texts(h, evs)
              /\ ~(k = h.sink /\ l[k].up = "open" /\ l[k].heard) => link'[k].in = l[k].in
<1>1. Texts(h, evs) \in Seq(SentEvents)
  BY TextsOfEvents DEF Hubs
<1>2. \A k \in Links : l[k].in \o Texts(h, evs) \in Seq(SentEvents)
  BY <1>1, Joined DEF LinkStates
<1>3. h.sink \in 0..MaxLinks /\ MaxLinks \in Nat
  BY DeviceAssumption DEF Hubs
<1>4. CASE h.sink # 0 /\ l[h.sink].up = "open" /\ l[h.sink].heard
  <2>1. h.sink \in Links
    BY <1>3, <1>4 DEF Links
  <2>2. link' = [l EXCEPT ![h.sink].in = l[h.sink].in \o Texts(h, evs)]
    BY <1>4 DEF Publishes, Delivered
  <2> QED BY <1>2, <1>4, <2>1, <2>2, ZenonT(30) DEF LinkStates
<1>5. CASE ~(h.sink # 0 /\ l[h.sink].up = "open" /\ l[h.sink].heard)
  <2>1. link' = l
    BY <1>5 DEF Publishes, Delivered
  <2>2. \A k \in Links : k # 0
    BY <1>3 DEF Links
  <2> QED BY <1>5, <2>1, <2>2
<1> QED BY <1>4, <1>5

\* The buffer stays the end of the stream.
LogOf(full, h) ==
  /\ Len(full) = h.last /\ Len(h.log) <= h.last
  /\ \A i \in 1..Len(h.log) : h.log[i] = full[h.last - Len(h.log) + i]

LEMMA LogPublished ==
  ASSUME NEW h \in Hubs, NEW g \in Hubs, NEW evs \in Seq(StreamEvents), NEW full \in Seq(StreamEvents),
         LogOf(full, h), g.last = h.last + Len(evs), g.log = Kept(h.log \o evs)
  PROVE  LogOf(full \o evs, g)
<1> DEFINE j == h.log \o evs
<1>1. h.log \in Seq(StreamEvents) /\ h.last \in Nat /\ Len(evs) \in Nat /\ Len(h.log) \in Nat /\ Len(full) \in Nat
  BY LenProperties DEF Hubs
<1>2. /\ j \in Seq(StreamEvents) /\ Len(j) = Len(h.log) + Len(evs)
      /\ \A i \in 1..Len(h.log) : j[i] = h.log[i]
      /\ \A i \in (Len(h.log) + 1)..(Len(h.log) + Len(evs)) : j[i] = evs[i - Len(h.log)]
  BY <1>1, Joined
<1>3. /\ Len(full \o evs) = Len(full) + Len(evs)
      /\ \A i \in 1..Len(full) : (full \o evs)[i] = full[i]
      /\ \A i \in (Len(full) + 1)..(Len(full) + Len(evs)) : (full \o evs)[i] = evs[i - Len(full)]
  BY Joined
<1> HIDE DEF j
<1>4. /\ g.log = Kept(j) /\ Len(Kept(j)) \in Nat /\ Len(Kept(j)) <= Len(j)
      /\ \A i \in 1..Len(Kept(j)) : Kept(j)[i] = j[Len(j) - Len(Kept(j)) + i]
  BY <1>2, KeptIsEnd DEF j
<1>5. \A i \in 1..Len(j) : j[i] = (full \o evs)[h.last - Len(h.log) + i]
  <2> SUFFICES ASSUME NEW i \in 1..Len(j) PROVE j[i] = (full \o evs)[h.last - Len(h.log) + i]
    OBVIOUS
  <2>1. CASE i <= Len(h.log)
    <3>1. i \in 1..Len(h.log) /\ h.last - Len(h.log) + i \in 1..Len(full)
      BY <1>1, <2>1 DEF LogOf
    <3> QED BY <1>2, <1>3, <3>1 DEF LogOf
  <2>2. CASE ~(i <= Len(h.log))
    <3> DEFINE x == h.last - Len(h.log) + i
    <3>1. /\ i \in (Len(h.log) + 1)..(Len(h.log) + Len(evs))
          /\ x \in (Len(full) + 1)..(Len(full) + Len(evs)) /\ x - Len(full) = i - Len(h.log)
      BY <1>1, <1>2, <2>2, SMTT(30) DEF LogOf
    <3> HIDE DEF x
    <3>2. (full \o evs)[x] = evs[i - Len(h.log)]
      BY <1>3, <3>1
    <3>3. j[i] = evs[i - Len(h.log)]
      BY <1>2, <3>1
    <3> QED BY <3>2, <3>3 DEF x
  <2> QED BY <2>1, <2>2
<1>6. \A i \in 1..Len(g.log) : g.log[i] = (full \o evs)[g.last - Len(g.log) + i]
  <2> SUFFICES ASSUME NEW i \in 1..Len(g.log) PROVE g.log[i] = (full \o evs)[g.last - Len(g.log) + i]
    OBVIOUS
  <2>1. Len(j) - Len(g.log) + i \in 1..Len(j)
    BY <1>1, <1>2, <1>4
  <2>2. h.last - Len(h.log) + (Len(j) - Len(g.log) + i) = g.last - Len(g.log) + i
    BY <1>1, <1>2, <1>4, LenProperties
  <2>3. g.log[i] = j[Len(j) - Len(g.log) + i]
    BY <1>4
  <2> QED BY <1>5, <2>1, <2>2, <2>3
<1>7. Len(full \o evs) = g.last /\ Len(g.log) <= g.last
  BY <1>1, <1>2, <1>3, <1>4 DEF LogOf
<1> QED BY <1>6, <1>7 DEF LogOf

-----------------------------------------------------------------------------
\* What is on its way to the device goes on from what it has.

Channel(in, h, up, H) ==
  \A i \in DOMAIN in :
    /\ in[i].at[1] \in 1..h.epoch /\ Ext(in[i].ev) <= H
    /\ in[i].at[1] = h.epoch => (in[i].ev.kind = "unavailable" <=> h.loop # "able")
    /\ up = "open" => in[i].at[1] = h.epoch

LEMMA RefusalsCohere ==
  ASSUME NEW in \in Seq(SentEvents), Refusals(in), NEW k PROVE Coherent(Bodies(in), 0, k)
<1>1. Len(in) \in Nat /\ DOMAIN in = 1..Len(in)
  BY LenProperties
<1>2. Len(Bodies(in)) = Len(in) /\ \A i \in 1..Len(in) : Bodies(in)[i] = in[i].ev
  BY BodiesOfTexts
<1>3. \A i \in (0 + 1)..Len(Bodies(in)) : Bodies(in)[i].kind = "unavailable"
  BY <1>1, <1>2 DEF Refusals
<1> QED BY <1>3 DEF Coherent

LEMMA ChainGrows ==
  ASSUME NEW in \in Seq(SentEvents), NEW evs \in Seq(StreamEvents), NEW h \in Hubs,
         NEW H \in Nat, NEW H2 \in Nat, H <= H2, NEW at,
         Channel(in, h, "open", H), Refusals(in) \/ Chained(in, at),
         \A i \in 1..Len(evs) : (evs[i].kind = "unavailable" <=> h.loop # "able") /\ Ext(evs[i]) <= H2,
         h.loop = "able" /\ evs # <<>> => Reached(in, at) = <<h.epoch, h.last>> \/ evs[1].kind = "snapshot"
  PROVE  /\ Channel(in \o Texts(h, evs), h, "open", H2)
         /\ Refusals(in \o Texts(h, evs)) \/ Chained(in \o Texts(h, evs), at)
         /\ evs # <<>> \/ Reached(in, at) = <<h.epoch, h.last>>
              => Reached(in \o Texts(h, evs), at) = <<h.epoch, h.last + Len(evs)>>
<1> DEFINE new == Texts(h, evs)
<1>1. h.epoch \in Nat \ {0} /\ h.last \in Nat
  BY DEF Hubs
<1>2. /\ new \in Seq(SentEvents) /\ Len(new) = Len(evs) /\ Len(evs) \in Nat
      /\ \A i \in 1..Len(evs) : new[i] = [at |-> <<h.epoch, h.last + i>>, ev |-> evs[i]]
  BY <1>1, TextsOfEvents, LenProperties
<1>3. ASSUME NEW i \in 1..Len(evs) PROVE new[i].at = <<h.epoch, h.last + i>> /\ new[i].ev = evs[i]
  <2>1. new[i] = [at |-> <<h.epoch, h.last + i>>, ev |-> evs[i]]
    BY <1>2
  <2> HIDE DEF new
  <2> QED BY <2>1
<1> HIDE DEF new
<1> DEFINE both == in \o new
<1>4. /\ both \in Seq(SentEvents) /\ Len(in) \in Nat /\ Len(both) = Len(in) + Len(evs)
      /\ \A i \in 1..Len(in) : both[i] = in[i]
      /\ \A i \in (Len(in) + 1)..(Len(in) + Len(evs)) : both[i] = new[i - Len(in)]
  <2>1. new \in Seq(SentEvents) /\ Len(new) = Len(evs)
    BY <1>2
  <2>2. in \o new \in Seq(SentEvents) /\ Len(in) \in Nat /\ Len(in \o new) = Len(in) + Len(new)
    BY <2>1, Joined, ZenonT(30)
  <2>4. \A i \in 1..Len(in) : (in \o new)[i] = in[i]
    BY <2>1, Joined
  <2>3. \A i \in (Len(in) + 1)..(Len(in) + Len(new)) : (in \o new)[i] = new[i - Len(in)]
    BY <2>1, Joined
  <2> QED BY <2>1, <2>2, <2>3, <2>4
<1>5. DOMAIN both = 1..Len(both) /\ DOMAIN in = 1..Len(in)
  BY <1>4, LenProperties
<1> HIDE DEF both
<1>6. \A i \in DOMAIN both : \/ i \in DOMAIN in /\ both[i] = in[i]
                             \/ /\ i - Len(in) \in 1..Len(evs) /\ i = Len(in) + (i - Len(in))
                                /\ both[i].at = <<h.epoch, h.last + (i - Len(in))>> /\ both[i].ev = evs[i - Len(in)]
  <2> SUFFICES ASSUME NEW i \in DOMAIN both
               PROVE  \/ i \in DOMAIN in /\ both[i] = in[i]
                      \/ /\ i - Len(in) \in 1..Len(evs) /\ i = Len(in) + (i - Len(in))
                         /\ both[i].at = <<h.epoch, h.last + (i - Len(in))>> /\ both[i].ev = evs[i - Len(in)]
    OBVIOUS
  <2>1. CASE i <= Len(in)
    BY <1>4, <1>5, <2>1
  <2>2. CASE ~(i <= Len(in))
    <3>1. i \in (Len(in) + 1)..(Len(in) + Len(evs)) /\ i - Len(in) \in 1..Len(evs) /\ i = Len(in) + (i - Len(in))
      BY <1>2, <1>4, <1>5, <2>2
    <3>2. both[i] = new[i - Len(in)]
      BY <1>4, <3>1
    <3> QED BY <1>3, <3>1, <3>2
  <2> QED BY <2>1, <2>2
<1>7. Channel(both, h, "open", H2)
  <2> SUFFICES ASSUME NEW i \in DOMAIN both
               PROVE  /\ both[i].at[1] = h.epoch /\ Ext(both[i].ev) <= H2
                      /\ both[i].ev.kind = "unavailable" <=> h.loop # "able"
    BY <1>1 DEF Channel
  <2>1. CASE i \in DOMAIN in /\ both[i] = in[i]
    <3>1. in[i] \in SentEvents
      BY <1>5, <2>1, ElementOfSeq
    <3>2. in[i].ev \in StreamEvents
      BY <3>1 DEF SentEvents
    <3>3. Ext(in[i].ev) \in Nat
      BY <3>2, EventShape
    <3> QED BY <2>1, <3>3 DEF Channel
  <2>2. CASE /\ i - Len(in) \in 1..Len(evs)
             /\ both[i].at = <<h.epoch, h.last + (i - Len(in))>> /\ both[i].ev = evs[i - Len(in)]
    BY <2>2
  <2> QED BY <1>6, <2>1, <2>2
<1>8. Refusals(both) \/ Chained(both, at)
  <2>1. CASE h.loop # "able"
    <3>1. Refusals(both)
      BY <1>7, <2>1 DEF Channel, Refusals
    <3> QED BY <3>1
  <2>2. CASE h.loop = "able"
    <3>1. Chained(in, at)
      BY <2>2 DEF Channel, Refusals, Chained
    <3>2. Chained(both, at)
      <4> SUFFICES ASSUME NEW i \in DOMAIN both
                   PROVE  /\ both[i].ev.kind # "unavailable"
                          /\ \/ both[i].ev.kind = "snapshot"
                             \/ both[i].at = <<(IF i = 1 THEN at ELSE both[i - 1].at)[1],
                                               (IF i = 1 THEN at ELSE both[i - 1].at)[2] + 1>>
        BY DEF Chained
      <4>1. both[i].ev.kind # "unavailable"
        BY <1>7, <2>2 DEF Channel
      <4>2. CASE i \in DOMAIN in
        <5>1. both[i] = in[i] /\ (i # 1 => i - 1 \in 1..Len(in))
          BY <1>4, <1>5, <4>2
        <5>2. i # 1 => both[i - 1] = in[i - 1]
          BY <1>4, <5>1
        <5> QED BY <3>1, <4>1, <4>2, <5>1, <5>2 DEF Chained
      <4>3. CASE i \notin DOMAIN in
        <5>1. /\ i - Len(in) \in 1..Len(evs) /\ i = Len(in) + (i - Len(in))
              /\ both[i].at = <<h.epoch, h.last + (i - Len(in))>> /\ both[i].ev = evs[i - Len(in)]
          BY <1>6, <4>3
        <5>2. CASE i - Len(in) = 1
          <6>1. evs # <<>>
            BY <1>2, <5>1
          <6>2. CASE evs[1].kind = "snapshot"
            BY <4>1, <5>1, <5>2, <6>2
          <6>3. CASE Reached(in, at) = <<h.epoch, h.last>>
            <7>1. (IF i = 1 THEN at ELSE both[i - 1].at) = <<h.epoch, h.last>>
              <8>1. CASE in = <<>>
                <9>1. Len(in) = 0
                  BY <8>1
                <9>2. i = 1
                  BY <5>1, <5>2, <9>1
                <9> QED BY <6>3, <8>1, <9>2 DEF Reached
              <8>2. CASE in # <<>>
                <9>1. Len(in) \in 1..Len(in) /\ i # 1 /\ i - 1 = Len(in)
                  BY <1>4, <5>1, <5>2, <8>2, EmptySeq
                <9> QED BY <1>4, <6>3, <8>2, <9>1 DEF Reached
              <8> QED BY <8>1, <8>2
            <7>2. both[i].at = <<h.epoch, h.last + 1>>
              BY <5>1, <5>2
            <7> QED BY <4>1, <7>1, <7>2
          <6> QED BY <2>2, <6>1, <6>2, <6>3
        <5>3. CASE i - Len(in) # 1
          <6>0. i \in Nat /\ Len(in) \in Nat /\ Len(evs) \in Nat
            BY <1>2, <1>4, <1>5
          <6> DEFINE j == i - Len(in)
          <6>j. j \in 2..Len(evs) /\ i = Len(in) + j
            BY <6>0, <5>1, <5>3
          <6> HIDE DEF j
          <6>a. i # 1 /\ i - Len(in) = j /\ (i - 1) - Len(in) = j - 1
            BY <6>0, <6>j
          <6>b. i - 1 \in (Len(in) + 1)..(Len(in) + Len(evs))
            BY <6>0, <6>j
          <6>c. j - 1 \in 1..Len(evs) /\ h.last + j = (h.last + (j - 1)) + 1
            <7>1. \A a, b \in Nat : a + b = (a + (b - 1)) + 1
              OBVIOUS
            <7>2. j \in Nat /\ j - 1 \in 1..Len(evs)
              BY <6>0, <6>j
            <7> QED BY <1>1, <7>1, <7>2
          <6>1. /\ i # 1 /\ i - 1 \in (Len(in) + 1)..(Len(in) + Len(evs))
                /\ (i - 1) - Len(in) \in 1..Len(evs) /\ h.last + (i - Len(in)) = (h.last + ((i - 1) - Len(in))) + 1
            BY <6>a, <6>b, <6>c
          <6>2. both[i - 1].at = <<h.epoch, h.last + ((i - 1) - Len(in))>>
            BY <1>3, <1>4, <6>1
          <6> QED BY <4>1, <5>1, <6>1, <6>2
        <5> QED BY <5>2, <5>3
      <4> QED BY <4>2, <4>3
    <3> QED BY <3>2
  <2> QED BY <2>1, <2>2
<1>9. ASSUME evs # <<>> \/ Reached(in, at) = <<h.epoch, h.last>>
      PROVE  Reached(both, at) = <<h.epoch, h.last + Len(evs)>>
  <2>1. CASE evs # <<>>
    <3>1. Len(evs) \in 1..Len(evs) /\ Len(both) \in (Len(in) + 1)..(Len(in) + Len(evs)) /\ Len(both) - Len(in) = Len(evs)
      BY <1>2, <1>4, <2>1, EmptySeq
    <3>2. both[Len(both)] = new[Len(both) - Len(in)]
      BY <1>4, <3>1
    <3>3. both # <<>>
      BY <1>4, <3>1, EmptySeq
    <3> QED BY <1>3, <3>1, <3>2, <3>3 DEF Reached
  <2>2. CASE evs = <<>>
    <3>1. Len(evs) = 0
      BY <2>2
    <3>2. both = in
      BY <1>4, <3>1, SeqEqual
    <3> QED BY <1>1, <1>9, <2>2, <3>1, <3>2
  <2> QED BY <2>1, <2>2
<1> QED BY <1>7, <1>8, <1>9 DEF both, new

\* The bodies of what is sent are what was published.
LEMMA BodiesOfSent ==
  ASSUME NEW in \in Seq(SentEvents), NEW evs \in Seq(StreamEvents), NEW h \in Hubs
  PROVE  Bodies(in \o Texts(h, evs)) = Bodies(in) \o evs
<1>1. h.epoch \in Nat /\ h.last \in Nat
  BY DEF Hubs
<1>2. /\ Texts(h, evs) \in Seq(SentEvents) /\ Len(Texts(h, evs)) = Len(evs) /\ Len(evs) \in Nat
      /\ \A i \in 1..Len(evs) : Texts(h, evs)[i] = [at |-> <<h.epoch, h.last + i>>, ev |-> evs[i]]
  BY <1>1, TextsOfEvents, LenProperties
<1>3. /\ Bodies(Texts(h, evs)) \in Seq(StreamEvents) /\ Len(Bodies(Texts(h, evs))) = Len(evs)
      /\ \A i \in 1..Len(evs) : Bodies(Texts(h, evs))[i] = Texts(h, evs)[i].ev
  BY <1>2, BodiesOfTexts
<1>4. ASSUME NEW i \in 1..Len(evs) PROVE Bodies(Texts(h, evs))[i] = evs[i]
  <2>1. Texts(h, evs)[i] = [at |-> <<h.epoch, h.last + i>>, ev |-> evs[i]]
    BY <1>2
  <2>2. Texts(h, evs)[i].ev = evs[i]
    BY <2>1
  <2> QED BY <1>3, <2>2
<1>5. Bodies(Texts(h, evs)) = evs
  BY <1>3, <1>4, SeqEqual
<1> QED BY <1>2, <1>5, BodiesJoined

\* A snapshot of all there is leads on, whatever came before it.
LEMMA SnapshotLeads ==
  ASSUME NEW S \in Seq(StreamEvents), NEW e \in StreamEvents, NEW k \in Nat, NEW H \in Nat, NEW o,
         k <= H, \A t \in 1..Len(S) : Ext(S[t]) <= H, Coherent(S, 0, k), e.kind = "snapshot", Ext(e) = H
  PROVE  Leads(S \o <<e>>, 0, k, H, o)
<1> DEFINE all == [q \in 1..H |-> [kind |-> "message", to |-> Nobody, body |-> [place |-> q, own |-> TRUE]]]
<1>1. \A q \in 1..H : Owes(all, q)
  BY DEF Owes
<1> HIDE DEF all
<1>2. Leads(S, 0, k, H, all)
  BY <1>1 DEF Leads, Complete
<1>3. <<e>> \in Seq(StreamEvents) /\ Len(<<e>>) = 1 /\ <<e>>[1] = e
  OBVIOUS
<1>4. Fits(<<e>>, H, all, H, o)
  <2>1. \A i \in 1..Len(<<e>>) : i = 1 /\ <<e>>[i] = e
    BY <1>3
  <2>2. \A q \in 1..H : \E i \in 1..Len(<<e>>) : q <= Ext(<<e>>[i])
    BY <1>3
  <2>3. \A i \in 1..Len(<<e>>) : \A j \in 1..(i - 1) : FALSE
    BY <1>3
  <2> QED BY <2>1, <2>2, <2>3 DEF Fits
<1>5. 0 \in Nat /\ 0 <= Len(S)
  BY LenProperties
<1> QED BY <1>2, <1>3, <1>4, <1>5, LeadsPublished

-----------------------------------------------------------------------------
\* A step that publishes and leaves the device as it is: the device can still follow.

SameLinks(l) ==
  /\ l \in [Links -> LinkStates]
  /\ \A n \in Links :
       /\ l[n].in = link[n].in /\ l[n].up = link[n].up /\ l[n].bound = link[n].bound
       /\ l[n].heard = link[n].heard /\ l[n].code = link[n].code
       /\ l[n].out = link[n].out \/ (link[n].out # <<>> /\ l[n].out = Tail(link[n].out))

SameHub(h) ==
  /\ h \in Hubs /\ h.epoch = hub.epoch /\ h.loop = hub.loop /\ h.last = hub.last
  /\ h.log = hub.log /\ h.sink = hub.sink

Tells(h, l, evs) ==
  /\ SameHub(h) /\ SameLinks(l) /\ evs \in Seq(StreamEvents) /\ Publishes(h, l, evs)
  /\ client' = client /\ history' \in Seq(Requests \cup {Reply}) /\ Len(history) <= Len(history')
  /\ Fits(evs, Len(history), hub.owed, Len(history'), h.owed)
  /\ \A i \in 1..Len(evs) : evs[i].kind = "unavailable" <=> ~Able

LEMMA SameRecord ==
  ASSUME NEW a \in LinkStates, NEW b \in LinkStates, a.up = b.up, a.bound = b.bound, a.heard = b.heard,
         a.code = b.code, a.out = b.out, a.in = b.in
  PROVE  a = b
BY DEF LinkStates

LEMMA ToldLinks ==
  ASSUME DeviceTypes, LinksInTurn, NEW h, NEW l, NEW evs, Tells(h, l, evs)
  PROVE  LinksInTurn'
<1>1. /\ hub' \in Hubs /\ hub'.epoch = h.epoch /\ hub'.loop = h.loop /\ hub'.sink = h.sink
  BY PublishedHub DEF Tells, SameHub, SameLinks
<1>2. /\ link' \in [Links -> LinkStates]
      /\ \A k \in Links :
           /\ link'[k].up = l[k].up /\ link'[k].bound = l[k].bound /\ link'[k].heard = l[k].heard
           /\ link'[k].code = l[k].code /\ link'[k].out = l[k].out
           /\ ~(k = h.sink /\ l[k].up = "open" /\ l[k].heard) => link'[k].in = l[k].in
  BY PublishedLink DEF Tells, SameHub, SameLinks
<1>3. \A k \in Links :
           /\ link'[k].up = link[k].up /\ link'[k].bound = link[k].bound /\ link'[k].heard = link[k].heard
           /\ link'[k].code = link[k].code
           /\ link'[k].out = link[k].out \/ link[k].out # <<>>
           /\ ~(k = hub.sink /\ link[k].up = "open" /\ link[k].heard) => link'[k].in = link[k].in
  BY <1>2 DEF Tells, SameLinks, SameHub
<1>4. ASSUME NEW n \in Links, n > client.conn PROVE link'[n] = link[n]
  <2>1. link[n] = [up |-> "unused", bound |-> FALSE, heard |-> TRUE, code |-> "none", out |-> <<>>, in |-> <<>>]
    BY <1>4 DEF LinksInTurn
  <2>2. link[n].up = "unused" /\ link[n].out = <<>>
    BY <2>1
  <2>3. link'[n].out = link[n].out /\ link'[n].in = link[n].in
    BY <1>3, <2>2
  <2>4. link[n] \in LinkStates /\ link'[n] \in LinkStates
    BY <1>2 DEF DeviceTypes
  <2> QED BY <1>3, <2>3, <2>4, SameRecord
<1>5. /\ client' = client /\ (Active' <=> Active) /\ (Able' <=> Able) /\ hub'.sink = hub.sink
  BY <1>1 DEF Tells, SameHub, Active, Able
<1>6. \A n \in Links : link'[n].bound <=> hub'.sink = n
  BY <1>3, <1>5 DEF LinksInTurn
<1>7. ASSUME NEW n \in Links, ~link'[n].bound, link'[n].up = "open" PROVE link'[n].in = <<>>
  BY <1>3, <1>7 DEF LinksInTurn
<1>8. ASSUME Active PROVE client.conn # 0 /\ link'[client.conn].heard /\ link'[client.conn].up # "unused"
  <2>1. client.conn \in Links
    BY <1>8 DEF LinksInTurn, DeviceTypes, Clients, Links
  <2> QED BY <1>3, <1>8, <2>1 DEF LinksInTurn, Up
<1>9. ASSUME client.phase = "ready", link'[client.conn].up = "open" PROVE Able /\ link'[client.conn].bound
  <2>1. client.conn \in Links
    BY <1>9 DEF LinksInTurn, DeviceTypes, Clients, Links, Active
  <2> QED BY <1>3, <1>9, <2>1 DEF LinksInTurn, Up
<1>10. \A n \in Links : n > client.conn =>
         link'[n] = [up |-> "unused", bound |-> FALSE, heard |-> TRUE, code |-> "none", out |-> <<>>, in |-> <<>>]
  BY <1>4 DEF LinksInTurn
<1>11. \A n \in Links : link'[n].bound => link'[n].up # "unused"
  BY <1>3 DEF LinksInTurn
<1> QED BY <1>5, <1>6, <1>7, <1>8, <1>9, <1>10, <1>11 DEF LinksInTurn, Up

\* What is on its way, as the channel it comes on.
LEMMA FollowingChannel ==
  ASSUME DeviceTypes, LinksInTurn, Following, Active
  PROVE  /\ client.conn \in Links /\ In \in Seq(SentEvents) /\ Out \in Seq(Commands)
         /\ link[client.conn] \in LinkStates
         /\ Channel(In, hub, Up, Len(history))
         /\ Refusals(In) \/ Chained(In, client.at)
         /\ Coherent(Bodies(In), 0, Len(client.shown))
         /\ Len(client.shown) \in Nat /\ Len(history) \in Nat
<1>1. client.conn \in Links
  BY DEF LinksInTurn, DeviceTypes, Clients, Links
<1>2. link[client.conn] \in LinkStates
  BY <1>1 DEF DeviceTypes
<1>3. Channel(In, hub, Up, Len(history))
  BY DEF Following, Channel, Able
<1>4. Len(client.shown) \in Nat /\ Len(history) \in Nat
  BY LenProperties DEF DeviceTypes, Clients
<1> QED BY <1>1, <1>2, <1>3, <1>4 DEF LinkStates, In, Out, Following

\* What came on a channel shows no more than the conversation has.
LEMMA ChannelExtents ==
  ASSUME NEW in \in Seq(SentEvents), NEW h, NEW up, NEW H, Channel(in, h, up, H)
  PROVE  \A t \in 1..Len(Bodies(in)) : Ext(Bodies(in)[t]) <= H
<1>1. DOMAIN in = 1..Len(in) /\ Len(Bodies(in)) = Len(in) /\ \A i \in 1..Len(in) : Bodies(in)[i] = in[i].ev
  BY BodiesOfTexts, LenProperties
<1> QED BY <1>1 DEF Channel

LEMMA ChannelLater ==
  ASSUME NEW in \in Seq(SentEvents), NEW h, NEW up, NEW H \in Nat, NEW H2 \in Nat, H <= H2,
         Channel(in, h, up, H)
  PROVE  Channel(in, h, up, H2)
<1> SUFFICES ASSUME NEW i \in DOMAIN in PROVE Ext(in[i].ev) <= H2
  BY DEF Channel
<1>1. in[i] \in SentEvents
  BY LenProperties, ElementOfSeq
<1>2. in[i].ev \in StreamEvents
  BY <1>1 DEF SentEvents
<1>3. Ext(in[i].ev) \in Nat
  BY <1>2, EventShape
<1> QED BY <1>3 DEF Channel

LEMMA TailOfSyncs ==
  ASSUME NEW q \in Seq(Commands), q # <<>>, NEW P,
         \A i \in DOMAIN q : q[i].kind = "sync" /\ q[i].body # Nowhere => i = 1 /\ P
  PROVE  \A i \in DOMAIN Tail(q) : Tail(q)[i].kind = "sync" => Tail(q)[i].body = Nowhere
<1>1. /\ Tail(q) \in Seq(Commands) /\ Len(Tail(q)) = Len(q) - 1 /\ Len(q) \in Nat
      /\ \A i \in 1..Len(Tail(q)) : Tail(q)[i] = q[i + 1]
      /\ DOMAIN q = 1..Len(q)
  BY HeadTailProperties, LenProperties
<1>2. DOMAIN Tail(q) = 1..Len(Tail(q))
  BY <1>1, LenProperties
<1>3. \A i \in 1..Len(Tail(q)) : i + 1 \in DOMAIN q /\ i + 1 # 1
  BY <1>1
<1> QED BY <1>1, <1>2, <1>3

\* The same, said of whatever the out queue has become.
LEMMA SyncsKept ==
  ASSUME NEW q \in Seq(Commands), NEW r, r = q \/ (q # <<>> /\ r = Tail(q)), NEW P,
         \A i \in DOMAIN q : q[i].kind = "sync" /\ q[i].body # Nowhere => i = 1 /\ q[i].body = client.at /\ P
  PROVE  \A i \in DOMAIN r : r[i].kind = "sync" /\ r[i].body # Nowhere => i = 1 /\ r[i].body = client.at /\ P
<1>1. CASE r = q
  BY <1>1
<1>2. CASE q # <<>> /\ r = Tail(q)
  <2> DEFINE Q == client.at = client.at /\ P
  <2>1. \A i \in DOMAIN q : q[i].kind = "sync" /\ q[i].body # Nowhere => i = 1 /\ P
    OBVIOUS
  <2>2. \A i \in DOMAIN Tail(q) : Tail(q)[i].kind = "sync" => Tail(q)[i].body = Nowhere
    BY <1>2, <2>1, TailOfSyncs
  <2> QED BY <1>2, <2>2
<1> QED BY <1>1, <1>2

LEMMA ToldFollowing ==
  ASSUME DeviceTypes, LinksInTurn, Following, ShowsFirst, NEW h, NEW l, NEW evs, Tells(h, l, evs)
  PROVE  Following'
<1> DEFINE c == client.conn
<1>1. /\ hub' \in Hubs /\ hub'.epoch = hub.epoch /\ hub'.loop = hub.loop
      /\ hub'.owed = h.owed /\ hub'.last = hub.last + Len(evs)
  BY PublishedHub DEF Tells, SameHub, SameLinks
<1>2. /\ client' = client /\ (Active' <=> Active) /\ (Able' <=> Able) /\ hub \in Hubs
      /\ Len(history) \in Nat /\ Len(history') \in Nat /\ Len(history) <= Len(history')
  BY <1>1, LenProperties DEF Tells, Active, Able, DeviceTypes
<1>3. CASE ~Active
  <2>1. ~Active' /\ ~Live'
    BY <1>2, <1>3 DEF Live
  <2> QED BY <1>1, <1>2, <2>1 DEF Following
<1>4. CASE Active
  <2>1. /\ c \in Links /\ In \in Seq(SentEvents) /\ Out \in Seq(Commands)
        /\ link[c] \in LinkStates
        /\ Channel(In, hub, Up, Len(history))
        /\ Refusals(In) \/ Chained(In, client.at)
        /\ Coherent(Bodies(In), 0, Len(client.shown))
        /\ Len(client.shown) \in Nat
    BY <1>4, FollowingChannel
  <2>2. /\ link'[c].up = link[c].up /\ link'[c].bound = link[c].bound /\ link'[c].heard = link[c].heard
        /\ link'[c].out = Out \/ (Out # <<>> /\ link'[c].out = Tail(Out))
        /\ c = hub.sink /\ Up = "open" /\ link[c].heard => link'[c].in = In \o Texts(h, evs)
        /\ ~(c = hub.sink /\ Up = "open" /\ link[c].heard) => link'[c].in = In
    <3>1. /\ link'[c].up = l[c].up /\ link'[c].bound = l[c].bound /\ link'[c].heard = l[c].heard
          /\ link'[c].out = l[c].out
          /\ c = h.sink /\ l[c].up = "open" /\ l[c].heard => link'[c].in = l[c].in \o Texts(h, evs)
          /\ ~(c = h.sink /\ l[c].up = "open" /\ l[c].heard) => link'[c].in = l[c].in
      BY <2>1, PublishedLink, ZenonT(30) DEF Tells, SameHub, SameLinks
    <3> QED BY <2>1, <3>1 DEF Tells, SameHub, SameLinks, In, Out, Up
  <2>3. link[c].heard /\ (link[c].bound <=> hub.sink = c)
    BY <1>4, <2>1 DEF LinksInTurn
  <2>4. /\ In' = link'[c].in /\ Out' = link'[c].out /\ Up' = Up
        /\ (Live' <=> Live)
    BY <1>2, <2>2 DEF In, Out, Up, Live
  <2> HIDE DEF c
  <2>5. CASE ~(hub.sink = c /\ Up = "open")
    <3>1. In' = In
      BY <2>2, <2>4, <2>5
    <3>2. ~Live'
      BY <2>3, <2>4, <2>5 DEF Live, c
    <3>3. Channel(In, hub, Up, Len(history'))
      BY <1>2, <2>1, ChannelLater
    <3>4. \A i \in DOMAIN Out' : Out'[i].kind = "sync" /\ Out'[i].body # Nowhere =>
             i = 1 /\ Out'[i].body = client.at /\ ~link[c].bound /\ In = <<>>
      <4>1. \A i \in DOMAIN Out : Out[i].kind = "sync" /\ Out[i].body # Nowhere =>
              i = 1 /\ Out[i].body = client.at /\ (~link[c].bound /\ In = <<>>)
        BY <1>4 DEF Following, c
      <4>2. Out' = Out \/ (Out # <<>> /\ Out' = Tail(Out))
        BY <2>2, <2>4
      <4> QED BY <2>1, <4>1, <4>2, SyncsKept
    <3> QED BY <1>1, <1>2, <1>4, <2>1, <2>2, <2>4, <3>1, <3>2, <3>3, <3>4 DEF Following, Channel, c
  <2>6. CASE hub.sink = c /\ Up = "open"
    <3>1. In' = In \o Texts(h, evs) /\ link[c].bound /\ (Able => Live)
      BY <1>4, <2>2, <2>3, <2>4, <2>6 DEF Live, c
    <3>2. h \in Hubs /\ h.epoch = hub.epoch /\ h.last = hub.last /\ h.loop = hub.loop /\ evs \in Seq(StreamEvents)
      BY DEF Tells, SameHub
    <3>3. Channel(In, h, "open", Len(history))
      BY <2>1, <2>6, <3>2 DEF Channel
    <3>4. Able <=> h.loop = "able"
      BY <3>2 DEF Able
    <3>5. Len(evs) \in Nat /\ \A i \in 1..Len(evs) : (evs[i].kind = "unavailable" <=> ~Able) /\ Ext(evs[i]) <= Len(history')
      BY <3>2, LenProperties DEF Tells, Fits
    <3>6. Able => Reached(In, client.at) = <<h.epoch, h.last>>
      BY <3>1, <3>2 DEF Following
    <3>7. /\ Channel(In', h, "open", Len(history'))
          /\ Refusals(In') \/ Chained(In', client.at)
          /\ Able => Reached(In', client.at) = <<h.epoch, h.last + Len(evs)>>
      <4>1. /\ Channel(In \o Texts(h, evs), h, "open", Len(history'))
            /\ Refusals(In \o Texts(h, evs)) \/ Chained(In \o Texts(h, evs), client.at)
            /\ evs # <<>> \/ Reached(In, client.at) = <<h.epoch, h.last>>
                 => Reached(In \o Texts(h, evs), client.at) = <<h.epoch, h.last + Len(evs)>>
        <5>1. \A i \in 1..Len(evs) : (evs[i].kind = "unavailable" <=> h.loop # "able") /\ Ext(evs[i]) <= Len(history')
          BY <3>4, <3>5
        <5>2. h.loop = "able" /\ evs # <<>> => Reached(In, client.at) = <<h.epoch, h.last>> \/ evs[1].kind = "snapshot"
          BY <3>4, <3>6
        <5>3. /\ In \in Seq(SentEvents) /\ evs \in Seq(StreamEvents) /\ h \in Hubs
              /\ Len(history) \in Nat /\ Len(history') \in Nat /\ Len(history) <= Len(history')
          BY <1>2, <2>1, <3>2
        <5>4. Refusals(In) \/ Chained(In, client.at)
          BY <2>1
        <5> HIDE DEF c
        <5> QED BY <3>3, <5>1, <5>2, <5>3, <5>4, ChainGrows
      <4> QED BY <3>1, <3>6, <4>1
    <3>8. In' \in Seq(SentEvents)
      <4>1. Texts(h, evs) \in Seq(SentEvents)
        BY <3>2, TextsOfEvents DEF Hubs
      <4> QED BY <2>1, <3>1, <4>1, Joined
    <3>9. ASSUME Able PROVE Leads(Bodies(In'), 0, Len(client.shown), Len(history'), h.owed)
      <4>1. Leads(Bodies(In), 0, Len(client.shown), Len(history), hub.owed)
        BY <2>1, <3>1, <3>9 DEF Following, Leads
      <4>2. Bodies(In') = Bodies(In) \o evs
        BY <2>1, <3>1, <3>2, BodiesOfSent
      <4>3. Bodies(In) \in Seq(StreamEvents) /\ 0 <= Len(Bodies(In)) /\ 0 \in Nat
        BY <2>1, BodiesOfTexts
      <4>4. \A t \in 1..Len(Bodies(In)) : Ext(Bodies(In)[t]) <= Len(history)
        BY <2>1, ChannelExtents
      <4>5. Fits(evs, Len(history), hub.owed, Len(history'), h.owed) /\ Len(client.shown) <= Len(history)
        BY DEF Tells, ShowsFirst
      <4> QED BY <1>2, <2>1, <3>2, <4>1, <4>2, <4>3, <4>4, <4>5, LeadsPublished
    <3>10. Coherent(Bodies(In'), 0, Len(client.shown))
      <4>1. CASE Able
        BY <3>9, <4>1 DEF Leads
      <4>2. CASE ~Able
        <5>1. Refusals(In')
          BY <3>4, <3>7, <4>2 DEF Channel, Refusals
        <5> QED BY <3>8, <5>1, RefusalsCohere
      <4> QED BY <4>1, <4>2
    <3>11. \A i \in DOMAIN Out' : Out'[i].kind = "sync" => Out'[i].body = Nowhere
      <4>1. \A i \in DOMAIN Out : Out[i].kind = "sync" /\ Out[i].body # Nowhere => i = 1 /\ Out[i].body = client.at /\ FALSE
        BY <1>4, <3>1 DEF Following, c
      <4>2. Out' = Out \/ (Out # <<>> /\ Out' = Tail(Out))
        BY <2>2, <2>4
      <4>3. \A i \in DOMAIN Out' : Out'[i].kind = "sync" /\ Out'[i].body # Nowhere => i = 1 /\ Out'[i].body = client.at /\ FALSE
        BY <2>1, <4>1, <4>2, SyncsKept
      <4> QED BY <4>3
    <3>12. client'.at[1] <= hub'.epoch
      BY <1>1, <1>2 DEF Following
    <3>13. \A i \in DOMAIN In' :
             /\ In'[i].at[1] \in 1..hub'.epoch /\ Ext(In'[i].ev) <= Len(history')
             /\ In'[i].at[1] = hub'.epoch => (In'[i].ev.kind = "unavailable" <=> ~Able')
             /\ Up' = "open" => In'[i].at[1] = hub'.epoch
      BY <1>1, <1>2, <3>2, <3>4, <3>7 DEF Channel
    <3>14. Able' => /\ Reached(In', client'.at) = <<hub'.epoch, hub'.last>>
                    /\ Complete(Bodies(In'), 0, Len(client'.shown), Len(history'), hub'.owed)
      BY <1>1, <1>2, <3>2, <3>7, <3>9 DEF Leads
    <3> QED BY <1>1, <1>2, <3>7, <3>10, <3>11, <3>12, <3>13, <3>14 DEF Following, Live
  <2> QED BY <2>5, <2>6
<1> QED BY <1>3, <1>4

-----------------------------------------------------------------------------
\* The stream as it was published, when more of it is published.

\* From a snapshot, what comes after it leads on.
LEMMA LeadsFromSnapshot ==
  ASSUME NEW S \in Seq(StreamEvents), NEW s \in Nat, NEW k \in Nat, NEW H \in Nat, NEW o,
         Leads(S, s, k, H, o), NEW t \in (s + 1)..Len(S), S[t].kind = "snapshot"
  PROVE  Leads(S, t, Ext(S[t]), H, o)
<1>1. Len(S) \in Nat /\ t \in Nat /\ \A i \in 1..Len(S) : Ext(S[i]) \in Nat
  BY LenProperties, ElementOfSeq, EventShape
<1>2. k <= Ext(S[t]) /\ \A u \in (s + 1)..(t - 1) : Ext(S[u]) <= Ext(S[t])
  BY DEF Leads, Coherent
<1>3. \A i \in (s + 1)..Len(S) : i \in 1..Len(S)
  BY <1>1
<1>4. Coherent(S, t, Ext(S[t]))
  <2> SUFFICES ASSUME NEW x \in (t + 1)..Len(S)
               PROVE  /\ S[x].kind = "message" =>
                           Ext(S[x]) <= Ext(S[t]) + 1 \/ \E u \in (t + 1)..(x - 1) : Ext(S[x]) <= Ext(S[u]) + 1
                      /\ S[x].kind = "snapshot" =>
                           Ext(S[t]) <= Ext(S[x]) /\ \A u \in (t + 1)..(x - 1) : Ext(S[u]) <= Ext(S[x])
    BY DEF Coherent
  <2>1. x \in (s + 1)..Len(S) /\ x \in Nat /\ t \in (s + 1)..(x - 1)
    BY <1>1
  <2>2. /\ S[x].kind = "message" =>
             Ext(S[x]) <= k + 1 \/ \E u \in (s + 1)..(x - 1) : Ext(S[x]) <= Ext(S[u]) + 1
        /\ S[x].kind = "snapshot" =>
             k <= Ext(S[x]) /\ \A u \in (s + 1)..(x - 1) : Ext(S[u]) <= Ext(S[x])
    BY <2>1 DEF Leads, Coherent
  <2>3. \A u \in (t + 1)..(x - 1) : u \in (s + 1)..(x - 1)
    BY <1>1
  <2>4. ASSUME S[x].kind = "message"
        PROVE  Ext(S[x]) <= Ext(S[t]) + 1 \/ \E u \in (t + 1)..(x - 1) : Ext(S[x]) <= Ext(S[u]) + 1
    <3>0. /\ Ext(S[x]) \in Nat /\ Ext(S[t]) \in Nat
          /\ \A u \in (s + 1)..(x - 1) : Ext(S[u]) \in Nat /\ (u \in (s + 1)..(t - 1) \/ u = t \/ u \in (t + 1)..(x - 1))
      BY <1>1, <1>3, <2>1
    <3>1. CASE Ext(S[x]) <= k + 1
      BY <1>2, <3>0, <3>1
    <3>2. CASE \E u \in (s + 1)..(x - 1) : Ext(S[x]) <= Ext(S[u]) + 1
      <4>1. PICK u \in (s + 1)..(x - 1) : Ext(S[x]) <= Ext(S[u]) + 1
        BY <3>2
      <4>2. CASE u \in (s + 1)..(t - 1)
        BY <1>2, <3>0, <4>1, <4>2
      <4>3. CASE u = t
        BY <4>1, <4>3
      <4>4. CASE u \in (t + 1)..(x - 1)
        BY <4>1, <4>4
      <4> QED BY <3>0, <4>2, <4>3, <4>4
    <3> QED BY <2>2, <2>4, <3>1, <3>2
  <2>5. ASSUME S[x].kind = "snapshot"
        PROVE  Ext(S[t]) <= Ext(S[x]) /\ \A u \in (t + 1)..(x - 1) : Ext(S[u]) <= Ext(S[x])
    BY <2>1, <2>2, <2>3, <2>5
  <2> QED BY <2>4, <2>5
<1>5. Complete(S, t, Ext(S[t]), H, o)
  <2> SUFFICES ASSUME NEW q \in 1..H
               PROVE  q <= Ext(S[t]) \/ (\E x \in (t + 1)..Len(S) : q <= Ext(S[x])) \/ Owes(o, q)
    BY DEF Complete
  <2>1. q <= k \/ (\E x \in (s + 1)..Len(S) : q <= Ext(S[x])) \/ Owes(o, q)
    BY DEF Leads, Complete
  <2>2. q \in Nat /\ Ext(S[t]) \in Nat
    BY <1>1, <1>3
  <2>3. CASE q <= k
    BY <1>2, <2>2, <2>3
  <2>4. CASE \E x \in (s + 1)..Len(S) : q <= Ext(S[x])
    <3>1. PICK x \in (s + 1)..Len(S) : q <= Ext(S[x])
      BY <2>4
    <3>2. Ext(S[x]) \in Nat /\ (x \in (s + 1)..(t - 1) \/ x = t \/ x \in (t + 1)..Len(S))
      BY <1>1, <1>3
    <3>3. CASE x \in (s + 1)..(t - 1)
      BY <1>2, <2>2, <3>1, <3>2, <3>3
    <3> QED BY <3>1, <3>2, <3>3
  <2> QED BY <2>1, <2>3, <2>4
<1> QED BY <1>4, <1>5 DEF Leads

\* What is on its way after a step that publishes evs: what was, what the buffer kept, or what was published.
Comes(t, evs) ==
  \/ \E j \in DOMAIN In : t = In[j]
  \/ \E j \in 1..Len(hub.log) :
       /\ t = [at |-> <<hub.epoch, hub.last - Len(hub.log) + j>>, ev |-> hub.log[j]]
       /\ client.at[1] = hub.epoch /\ client.at[2] < hub.last - Len(hub.log) + j
  \/ \E j \in 1..Len(evs) : t = [at |-> <<hub.epoch, hub.last + j>>, ev |-> evs[j]]

LEMMA StreamPublished ==
  ASSUME DeviceTypes, Following, ShowsFirst, StreamLeads, NEW evs \in Seq(StreamEvents),
         hub' \in Hubs, hub'.epoch = hub.epoch, hub'.loop = hub.loop,
         hub'.last = hub.last + Len(evs), hub'.log = Kept(hub.log \o evs),
         client' = client, Len(history') \in Nat, Len(history) <= Len(history'),
         Fits(evs, Len(history), hub.owed, Len(history'), hub'.owed),
         \A i \in 1..Len(evs) : evs[i].kind = "snapshot" => i = Len(evs) /\ Ext(evs[i]) = Len(history'),
         \A i \in 1..Len(evs) : evs[i].kind = "unavailable" <=> ~Able,
         Active => In' \in Seq(SentEvents) /\ \A i \in DOMAIN In' : In'[i].at[1] = hub.epoch => Comes(In'[i], evs)
  PROVE  StreamLeads'
<1> DEFINE H == Len(history)
           H2 == Len(history')
<1>1. PICK full \in Seq(StreamEvents) : StreamOf(full)
  BY DEF StreamLeads
<1> DEFINE new == full \o evs
<1>2. /\ hub \in Hubs /\ hub.epoch \in Nat /\ hub.last \in Nat /\ hub.log \in Seq(StreamEvents) /\ Len(hub.log) \in Nat
      /\ H \in Nat /\ H2 \in Nat /\ Len(client.shown) \in Nat /\ client.at \in Positions
      /\ Len(client.shown) <= H
  BY LenProperties DEF DeviceTypes, Hubs, Clients, ShowsFirst
<1>3. Len(full) = hub.last /\ LogOf(full, hub) /\ \A t \in 1..Len(full) : Ext(full[t]) <= H
  BY <1>1 DEF StreamOf, LogOf
<1>4. /\ new \in Seq(StreamEvents) /\ Len(evs) \in Nat /\ Len(new) = hub.last + Len(evs)
      /\ \A i \in 1..Len(full) : new[i] = full[i]
      /\ \A i \in 1..Len(evs) : new[hub.last + i] = evs[i]
  <2>1. /\ full \o evs \in Seq(StreamEvents) /\ Len(evs) \in Nat /\ Len(full \o evs) = Len(full) + Len(evs)
        /\ \A i \in 1..Len(full) : (full \o evs)[i] = full[i]
        /\ \A i \in 1..Len(evs) : (full \o evs)[Len(full) + i] = evs[i]
    BY Joined
  <2> QED BY <1>3, <2>1
<1>5. LogOf(new, hub')
  BY <1>2, <1>3, LogPublished
<1>6. ASSUME NEW s \in Nat, NEW k \in Nat, s <= Len(full), k <= H, Leads(full, s, k, H, hub.owed)
      PROVE  Leads(new, s, k, H2, hub'.owed)
  BY <1>2, <1>3, <1>6, LeadsPublished
<1> HIDE DEF new
<1>7. \A t \in 1..hub'.last : Ext(new[t]) <= H2 /\ (new[t].kind = "unavailable" <=> ~Able)
  <2> SUFFICES ASSUME NEW t \in 1..hub'.last PROVE Ext(new[t]) <= H2 /\ (new[t].kind = "unavailable" <=> ~Able)
    OBVIOUS
  <2>1. CASE t <= hub.last
    <3>1. t \in 1..Len(full) /\ new[t] = full[t]
      BY <1>2, <1>3, <1>4, <2>1
    <3>2. Ext(full[t]) \in Nat
      BY <3>1, ElementOfSeq, EventShape
    <3>3. full[t].kind = "unavailable" <=> ~Able
      BY <1>1, <1>3, <3>1 DEF StreamOf
    <3> QED BY <1>2, <1>3, <3>1, <3>2, <3>3
  <2>2. CASE ~(t <= hub.last)
    <3>1. t - hub.last \in 1..Len(evs) /\ t = hub.last + (t - hub.last)
      BY <1>2, <1>4, <2>2
    <3>2. new[t] = evs[t - hub.last]
      BY <1>4, <3>1
    <3> QED BY <3>1, <3>2 DEF Fits
  <2> QED BY <2>1, <2>2
<1>8. (Able' <=> Able) /\ (Active' <=> Active)
  BY DEF Able, Active
<1>9. ASSUME Able, client.at[1] = hub.epoch
      PROVE  client.at[2] <= hub'.last /\ Leads(new, client.at[2], Len(client.shown), H2, hub'.owed)
  <2>1. client.at[2] \in Nat /\ client.at[2] <= Len(full) /\ Leads(full, client.at[2], Len(client.shown), H, hub.owed)
    BY <1>1, <1>2, <1>3, <1>9 DEF StreamOf, Positions
  <2> QED BY <1>2, <1>3, <1>4, <1>6, <2>1
<1>10. ASSUME Able, Active, NEW i \in DOMAIN In', In'[i].at[1] = hub.epoch
       PROVE  /\ In'[i].at[2] \in 1..hub'.last /\ In'[i].ev = new[In'[i].at[2]]
              /\ In'[i].ev.kind = "snapshot" => Leads(new, In'[i].at[2], Ext(In'[i].ev), H2, hub'.owed)
  <2> DEFINE t == In'[i]
  <2>1. t.at[1] = hub.epoch /\ Comes(t, evs)
    BY <1>10
  <2> HIDE DEF t
  <2> SUFFICES /\ t.at[2] \in 1..hub'.last /\ t.ev = new[t.at[2]]
               /\ t.ev.kind = "snapshot" => Leads(new, t.at[2], Ext(t.ev), H2, hub'.owed)
    BY DEF t
  <2>2. CASE \E j \in DOMAIN In : t = In[j]
    <3>1. PICK j \in DOMAIN In : t = In[j]
      BY <2>2
    <3>2. /\ t.at[2] \in 1..hub.last /\ t.ev = full[t.at[2]]
          /\ t.ev.kind = "snapshot" => Leads(full, t.at[2], Ext(t.ev), H, hub.owed)
      BY <1>1, <1>10, <2>1, <3>1 DEF StreamOf
    <3>3. Ext(t.ev) <= H
      BY <1>10, <3>1 DEF Following
    <3>4. t.at[2] \in 1..Len(full) /\ new[t.at[2]] = full[t.at[2]] /\ t.at[2] \in 1..hub'.last
      BY <1>2, <1>3, <1>4, <3>2, SMTT(30)
    <3>5. Ext(t.ev) \in Nat
      BY <3>2, <3>4, ElementOfSeq, EventShape
    <3>6. t.at[2] \in Nat /\ t.at[2] <= Len(full)
      BY <3>4
    <3> QED BY <1>6, <3>2, <3>3, <3>4, <3>5, <3>6
  <2>3. CASE \E j \in 1..Len(hub.log) :
               /\ t = [at |-> <<hub.epoch, hub.last - Len(hub.log) + j>>, ev |-> hub.log[j]]
               /\ client.at[1] = hub.epoch /\ client.at[2] < hub.last - Len(hub.log) + j
    <3>1. PICK j \in 1..Len(hub.log) :
               /\ t = [at |-> <<hub.epoch, hub.last - Len(hub.log) + j>>, ev |-> hub.log[j]]
               /\ client.at[1] = hub.epoch /\ client.at[2] < hub.last - Len(hub.log) + j
      BY <2>3
    <3>2. /\ t.at[2] = hub.last - Len(hub.log) + j /\ t.ev = hub.log[j] /\ hub.log[j] = full[hub.last - Len(hub.log) + j]
      BY <1>3, <3>1 DEF LogOf
    <3>3. Len(hub.log) <= hub.last /\ client.at[2] \in Nat
      BY <1>2, <1>3 DEF LogOf, Positions
    <3>4. hub.last - Len(hub.log) + j \in 1..hub.last /\ hub.last - Len(hub.log) + j \in (client.at[2] + 1)..Len(full)
      BY <1>2, <1>3, <3>1, <3>3, SMTT(30)
    <3>5. t.at[2] \in 1..Len(full) /\ t.at[2] \in (client.at[2] + 1)..Len(full) /\ t.ev = full[t.at[2]]
      BY <1>3, <3>2, <3>4
    <3>6. t.at[2] \in 1..hub'.last /\ new[t.at[2]] = full[t.at[2]]
      BY <1>2, <1>3, <1>4, <3>5, SMTT(30)
    <3>7. ASSUME t.ev.kind = "snapshot" PROVE Leads(new, t.at[2], Ext(t.ev), H2, hub'.owed)
      <4>1. Leads(full, client.at[2], Len(client.shown), H, hub.owed)
        BY <1>1, <1>10, <3>1 DEF StreamOf
      <4>2. Leads(full, t.at[2], Ext(full[t.at[2]]), H, hub.owed)
        BY <1>2, <3>3, <3>5, <3>7, <4>1, LeadsFromSnapshot
      <4>3. Ext(full[t.at[2]]) \in Nat /\ Ext(full[t.at[2]]) <= H
        BY <1>3, <3>5, ElementOfSeq, EventShape
      <4>4. t.at[2] \in Nat /\ t.at[2] <= Len(full)
        BY <3>5
      <4> QED BY <1>6, <3>5, <4>2, <4>3, <4>4
    <3> QED BY <3>5, <3>6, <3>7
  <2>4. CASE \E j \in 1..Len(evs) : t = [at |-> <<hub.epoch, hub.last + j>>, ev |-> evs[j]]
    <3>1. PICK j \in 1..Len(evs) : t = [at |-> <<hub.epoch, hub.last + j>>, ev |-> evs[j]]
      BY <2>4
    <3>2. t.at[2] = hub.last + j /\ t.ev = evs[j] /\ new[hub.last + j] = evs[j]
      BY <1>4, <3>1
    <3>3. hub.last + j \in 1..hub'.last
      BY <1>2, <1>4
    <3>4. ASSUME t.ev.kind = "snapshot" PROVE Leads(new, t.at[2], Ext(t.ev), H2, hub'.owed)
      <4>1. j = Len(evs) /\ Ext(t.ev) = H2
        BY <3>2, <3>4
      <4>2. t.at[2] = Len(new) /\ Len(new) \in Nat
        BY <1>2, <1>4, <3>2, <4>1
      <4>3. Coherent(new, Len(new), H2)
        BY <4>2 DEF Coherent
      <4>4. Complete(new, Len(new), H2, H2, hub'.owed)
        BY <1>2 DEF Complete
      <4> QED BY <4>1, <4>2, <4>3, <4>4 DEF Leads
    <3> QED BY <3>2, <3>3, <3>4
  <2> QED BY <2>1, <2>2, <2>3, <2>4 DEF Comes
<1>11. StreamOf(new)'
  <2>1. new' = new /\ Len(client'.shown) = Len(client.shown) /\ client'.at = client.at
    OBVIOUS
  <2> QED BY <1>4, <1>5, <1>7, <1>8, <1>9, <1>10 DEF StreamOf, LogOf
<1> QED BY <1>4, <1>11 DEF StreamLeads

\* A command taken on the device's own connection is answered.
AnswersAs(l, evs) ==
  \A n \in Links :
    \/ l[n].out = link[n].out
    \/ /\ link[n].out # <<>> /\ l[n].out = Tail(link[n].out)
       /\ hub.sink = n => \E i \in 1..Len(evs) : evs[i].to = Head(link[n].out).id

\* The device's connection after the step.
LEMMA ToldChannel ==
  ASSUME DeviceTypes, LinksInTurn, NEW h, NEW l, NEW evs, Tells(h, l, evs), NEW c \in Links, c = client.conn
  PROVE  /\ link'[c].up = link[c].up /\ link'[c].bound = link[c].bound /\ link'[c].heard = link[c].heard
         /\ link'[c].out = l[c].out
         /\ c = hub.sink /\ link[c].up = "open" /\ link[c].heard => link'[c].in = link[c].in \o Texts(h, evs)
         /\ ~(c = hub.sink /\ link[c].up = "open" /\ link[c].heard) => link'[c].in = link[c].in
         /\ link[c] \in LinkStates /\ client.conn = c /\ client' = client
<1>1. /\ link'[c].up = l[c].up /\ link'[c].bound = l[c].bound /\ link'[c].heard = l[c].heard
      /\ link'[c].out = l[c].out
      /\ c = h.sink /\ l[c].up = "open" /\ l[c].heard => link'[c].in = l[c].in \o Texts(h, evs)
      /\ ~(c = h.sink /\ l[c].up = "open" /\ l[c].heard) => link'[c].in = l[c].in
  BY PublishedLink, ZenonT(90) DEF Tells, SameHub, SameLinks
<1>2. /\ l[c].up = link[c].up /\ l[c].bound = link[c].bound /\ l[c].heard = link[c].heard /\ l[c].in = link[c].in
      /\ h.sink = hub.sink /\ client' = client
  BY DEF Tells, SameHub, SameLinks
<1>3. link[c] \in LinkStates
  BY DEF DeviceTypes
<1> QED BY <1>1, <1>2, <1>3

LEMMA ToldStream ==
  ASSUME DeviceTypes, LinksInTurn, Following, ShowsFirst, StreamLeads, NEW h, NEW l, NEW evs, Tells(h, l, evs),
         \A i \in 1..Len(evs) : evs[i].kind # "snapshot", Following'
  PROVE  StreamLeads'
<1>1. /\ hub' \in Hubs /\ hub'.epoch = hub.epoch /\ hub'.loop = hub.loop
      /\ hub'.owed = h.owed /\ hub'.last = hub.last + Len(evs) /\ hub'.log = Kept(hub.log \o evs)
      /\ evs \in Seq(StreamEvents)
  BY PublishedHub DEF Tells, SameHub, SameLinks
<1>2. /\ client' = client /\ Len(history') \in Nat /\ Len(history) <= Len(history')
      /\ Fits(evs, Len(history), hub.owed, Len(history'), hub'.owed)
      /\ \A i \in 1..Len(evs) : evs[i].kind = "unavailable" <=> ~Able
  BY <1>1, LenProperties DEF Tells
<1>3. ASSUME Active PROVE In' \in Seq(SentEvents) /\ \A i \in DOMAIN In' : Comes(In'[i], evs)
  <2> DEFINE c == client.conn
  <2>1. c \in Links
    BY <1>3 DEF LinksInTurn, DeviceTypes, Clients, Links
  <2>2. In' = link'[c].in /\ In = link[c].in
    BY <1>2 DEF In
  <2>3. \/ In' = In
        \/ In' = In \o Texts(h, evs)
    <3>1. /\ c = hub.sink /\ link[c].up = "open" /\ link[c].heard => link'[c].in = link[c].in \o Texts(h, evs)
          /\ ~(c = hub.sink /\ link[c].up = "open" /\ link[c].heard) => link'[c].in = link[c].in
      BY <2>1, ToldChannel, SMTT(90)
    <3> QED BY <2>2, <3>1
  <2>4. In \in Seq(SentEvents)
    BY <2>1, <2>2 DEF DeviceTypes, LinkStates
  <2>5. CASE In' = In
    BY <2>4, <2>5 DEF Comes
  <2>6. CASE In' = In \o Texts(h, evs)
    <3>1. /\ Texts(h, evs) \in Seq(SentEvents) /\ Len(Texts(h, evs)) = Len(evs)
          /\ \A i \in 1..Len(evs) : Texts(h, evs)[i] = [at |-> <<hub.epoch, hub.last + i>>, ev |-> evs[i]]
      <4>1. evs \in Seq(StreamEvents) /\ h.epoch = hub.epoch /\ h.last = hub.last /\ h.epoch \in Nat /\ h.last \in Nat
        BY DEF Tells, SameHub, Hubs
      <4>2. /\ Texts(h, evs) \in Seq(SentEvents) /\ Len(Texts(h, evs)) = Len(evs)
            /\ \A i \in 1..Len(evs) : Texts(h, evs)[i] = [at |-> <<h.epoch, h.last + i>>, ev |-> evs[i]]
        BY <4>1, TextsOfEvents
      <4> QED BY <4>1, <4>2
    <3>2. In' \in Seq(SentEvents) /\ Len(In) \in Nat /\ Len(In') = Len(In) + Len(Texts(h, evs))
      BY <2>4, <2>6, <3>1, Joined
    <3>3. \A i \in 1..Len(In) : In'[i] = In[i]
      BY <2>4, <2>6, <3>1, Joined
    <3>4. \A i \in (Len(In) + 1)..(Len(In) + Len(Texts(h, evs))) : In'[i] = Texts(h, evs)[i - Len(In)]
      BY <2>4, <2>6, <3>1, Joined
    <3>5. ASSUME NEW i \in DOMAIN In' PROVE Comes(In'[i], evs)
      <4>1. i \in 1..(Len(In) + Len(evs)) /\ Len(evs) \in Nat /\ DOMAIN In = 1..Len(In)
        BY <1>1, <2>4, <3>1, <3>2, LenProperties
      <4>2. CASE i <= Len(In)
        <5>1. i \in DOMAIN In /\ In'[i] = In[i]
          BY <3>2, <3>3, <4>1, <4>2
        <5> QED BY <5>1 DEF Comes
      <4>3. CASE ~(i <= Len(In))
        <5>1. i - Len(In) \in 1..Len(evs) /\ i \in (Len(In) + 1)..(Len(In) + Len(Texts(h, evs)))
          BY <3>1, <3>2, <4>1, <4>3
        <5>2. In'[i] = Texts(h, evs)[i - Len(In)]
          BY <3>4, <5>1
        <5>3. In'[i] = [at |-> <<hub.epoch, hub.last + (i - Len(In))>>, ev |-> evs[i - Len(In)]]
          BY <3>1, <5>1, <5>2
        <5> QED BY <5>1, <5>3 DEF Comes
      <4> QED BY <4>2, <4>3
    <3> QED BY <3>2, <3>5
  <2> QED BY <2>3, <2>5, <2>6
<1> QED BY <1>1, <1>2, <1>3, StreamPublished

LEMMA ToldOnTheWay ==
  ASSUME DeviceTypes, LinksInTurn, NEW h, NEW l, NEW evs, Tells(h, l, evs), AnswersAs(l, evs),
         NEW id, Serving, UnderWay(id)
  PROVE  UnderWay(id)'
<1> DEFINE c == client.conn
<1>1. c \in Links /\ c = client.conn
  BY DEF Serving, LinksInTurn, DeviceTypes, Clients, Links, Active
<1>2. c = hub.sink /\ link[c].up = "open" /\ link[c].heard
  BY <1>1 DEF Serving, LinksInTurn, Active
<1>3. /\ link'[c].out = l[c].out /\ link'[c].in = link[c].in \o Texts(h, evs)
      /\ link[c] \in LinkStates /\ client'.conn = c
  BY <1>1, <1>2, ToldChannel, ZenonT(30)
<1>4. /\ Texts(h, evs) \in Seq(SentEvents) /\ Len(Texts(h, evs)) = Len(evs)
      /\ \A i \in 1..Len(evs) : Texts(h, evs)[i] = [at |-> <<h.epoch, h.last + i>>, ev |-> evs[i]]
  <2>1. evs \in Seq(StreamEvents) /\ h.epoch \in Nat /\ h.last \in Nat
    BY DEF Tells, SameHub, Hubs
  <2> QED BY <2>1, TextsOfEvents
<1>5. link[c].in \in Seq(SentEvents) /\ link[c].out \in Seq(Commands)
  BY <1>3 DEF LinkStates
<1> DEFINE in == link[c].in
           out == link[c].out
           new == Texts(h, evs)
<1>6. /\ in \o new \in Seq(SentEvents) /\ Len(in) \in Nat /\ Len(new) \in Nat /\ Len(in \o new) = Len(in) + Len(new)
      /\ DOMAIN (in \o new) = 1..(Len(in) + Len(new)) /\ DOMAIN in = 1..Len(in)
  <2>1. in \o new \in Seq(SentEvents) /\ Len(in) \in Nat /\ Len(new) \in Nat /\ Len(in \o new) = Len(in) + Len(new)
    BY <1>4, <1>5, Joined, ZenonT(30)
  <2>2. DOMAIN (in \o new) = 1..Len(in \o new) /\ DOMAIN in = 1..Len(in)
    BY <1>5, <2>1, LenProperties
  <2> QED BY <2>1, <2>2
<1>7. \A i \in 1..Len(in) : (in \o new)[i] = in[i]
  BY <1>4, <1>5, Joined
<1>8. \A i \in 1..Len(new) : (in \o new)[Len(in) + i] = new[i]
  BY <1>4, <1>5, Joined
<1>9. CASE \E i \in DOMAIN in : in[i].ev.to = id
  <2>1. PICK i \in DOMAIN in : in[i].ev.to = id
    BY <1>9
  <2>2. i \in DOMAIN (in \o new) /\ (in \o new)[i] = in[i]
    BY <1>6, <1>7
  <2> QED BY <1>3, <2>1, <2>2 DEF UnderWay
<1>10. CASE \E i \in DOMAIN out : out[i].id = id
  <2>1. PICK i \in DOMAIN out : out[i].id = id
    BY <1>10
  <2>2. CASE l[c].out = out
    BY <1>3, <2>1, <2>2 DEF UnderWay
  <2>3. CASE out # <<>> /\ l[c].out = Tail(out) /\ \E j \in 1..Len(evs) : evs[j].to = Head(out).id
    <3>1. /\ Head(out) = out[1] /\ Len(Tail(out)) = Len(out) - 1 /\ Len(out) \in Nat /\ DOMAIN out = 1..Len(out)
          /\ Tail(out) \in Seq(Commands) /\ \A k \in 1..Len(Tail(out)) : Tail(out)[k] = out[k + 1]
      BY <1>5, <2>3, HeadTailProperties, LenProperties
    <3>2. CASE i = 1
      <4>1. PICK j \in 1..Len(evs) : evs[j].to = id
        BY <2>1, <2>3, <3>1, <3>2
      <4>2. new[j] = [at |-> <<h.epoch, h.last + j>>, ev |-> evs[j]]
        BY <1>4
      <4>3. new[j].ev = evs[j]
        <5> HIDE DEF new
        <5> QED BY <4>2
      <4>4. Len(in) + j \in DOMAIN (in \o new) /\ (in \o new)[Len(in) + j] = new[j]
        BY <1>4, <1>6, <1>8
      <4>5. \E x \in DOMAIN (in \o new) : (in \o new)[x].ev.to = id
        BY <4>1, <4>3, <4>4
      <4> QED BY <1>3, <4>5 DEF UnderWay
    <3>3. CASE i # 1
      <4>1. i - 1 \in 1..Len(Tail(out)) /\ (i - 1) + 1 = i
        BY <3>1, <3>3
      <4>2. i - 1 \in DOMAIN Tail(out) /\ Tail(out)[i - 1] = out[i]
        BY <3>1, <4>1, LenProperties
      <4>3. \E x \in DOMAIN link'[c].out : link'[c].out[x].id = id
        BY <1>3, <2>1, <2>3, <4>2
      <4> QED BY <1>3, <4>3 DEF UnderWay
    <3> QED BY <3>2, <3>3
  <2> QED BY <1>1, <1>2, <2>2, <2>3 DEF AnswersAs
<1> QED BY <1>9, <1>10 DEF UnderWay

\* All that the device relies on, after a step that tells it of what happened.
LEMMA Carried ==
  ASSUME DeviceIInv, NEW h, NEW l, NEW evs, Tells(h, l, evs), AnswersAs(l, evs),
         \A i \in 1..Len(evs) : evs[i].kind # "snapshot",
         over' \in SUBSET Nat, readTo' \in Nat, RecordedOnce', OwedInOrder'
  PROVE  DeviceIInv'
<1>1. /\ DeviceTypes /\ LinksInTurn /\ Following /\ ShowsFirst /\ StreamLeads
      /\ SendsAreOnTheWay /\ AppReadsAreOnTheWay
  BY DEF DeviceIInv
<1>2. LinksInTurn'
  BY <1>1, ToldLinks
<1>3. Following'
  BY <1>1, ToldFollowing
<1>4. StreamLeads'
  BY <1>1, <1>3, ToldStream
<1>5. DeviceTypes'
  <2>1. hub' \in Hubs
    BY PublishedHub DEF Tells, SameHub, SameLinks
  <2>2. link' \in [Links -> LinkStates]
    BY PublishedLink DEF Tells, SameHub, SameLinks
  <2> QED BY <1>1, <2>1, <2>2 DEF DeviceTypes, Tells
<1>6. ShowsFirst'
  <2>1. client' = client /\ Len(client.shown) <= Len(history) /\ Len(history) <= Len(history') /\ ShownInOrder
    BY <1>1 DEF Tells, ShowsFirst
  <2>2. Len(client.shown) \in Nat /\ Len(history) \in Nat /\ Len(history') \in Nat
    BY <1>1, <1>5, LenProperties DEF DeviceTypes, Clients
  <2>3. Len(client'.shown) <= Len(history')
    BY <2>1, <2>2
  <2>4. ShownInOrder'
    BY <2>1 DEF ShownInOrder
  <2> QED BY <2>3, <2>4 DEF ShowsFirst
<1>7. client' = client /\ (Serving' => Serving)
  <2>1. client' = client
    BY DEF Tells
  <2>2. ASSUME Serving' PROVE Serving
    <3>1. client.conn \in Links
      BY <1>1, <2>1, <2>2 DEF Serving, LinksInTurn, DeviceTypes, Clients, Links, Active
    <3> QED BY <1>1, <2>1, <2>2, <3>1, ToldChannel DEF Serving
  <2> QED BY <2>1, <2>2
<1>8. ASSUME NEW id, Serving, UnderWay(id) PROVE UnderWay(id)'
  BY <1>1, <1>8, ToldOnTheWay
<1>9. SendsAreOnTheWay'
  BY <1>1, <1>7, <1>8 DEF SendsAreOnTheWay
<1>10. AppReadsAreOnTheWay'
  BY <1>1, <1>7, <1>8 DEF AppReadsAreOnTheWay, ReadsAreOnTheWay
<1> QED BY <1>2, <1>3, <1>4, <1>5, <1>6, <1>9, <1>10 DEF DeviceIInv

-----------------------------------------------------------------------------
\* The steps that publish and leave the device as it is.

LEMMA QuietFits ==
  ASSUME NEW evs \in Seq(StreamEvents), NEW H, NEW o, NEW H2 \in Nat, NEW o2,
         \A i \in 1..Len(evs) : evs[i].kind \notin {"message", "snapshot"},
         \A q \in 1..H2 : (q <= H /\ ~Owes(o, q)) \/ Owes(o2, q)
  PROVE  Fits(evs, H, o, H2, o2)
<1>1. \A i \in 1..Len(evs) : Ext(evs[i]) = 0
  BY ElementOfSeq, EventShape
<1> QED BY <1>1 DEF Fits

LEMMA OneEvent ==
  ASSUME NEW e \in StreamEvents
  PROVE  /\ <<e>> \in Seq(StreamEvents) /\ Len(<<e>>) = 1 /\ <<e>>[1] = e
         /\ \A i \in 1..Len(<<e>>) : i = 1 /\ <<e>>[i] = e
OBVIOUS

\* A step that takes no command leaves the connections as they are.
LEMMA NoneTaken ==
  ASSUME DeviceTypes, NEW evs PROVE SameLinks(link) /\ AnswersAs(link, evs)
BY DEF DeviceTypes, SameLinks, AnswersAs

\* One that takes the next command of a connection answers it there.
LEMMA OneTaken ==
  ASSUME DeviceTypes, NEW n \in Links, link[n].out # <<>>, NEW e \in StreamEvents,
         hub.sink = n => e.to = Head(link[n].out).id
  PROVE  LET l == [link EXCEPT ![n].out = Tail(@)]
         IN SameLinks(l) /\ AnswersAs(l, <<e>>)
<1> DEFINE l == [link EXCEPT ![n].out = Tail(@)]
<1>1. /\ link[n] \in LinkStates /\ link \in [Links -> LinkStates]
  BY DEF DeviceTypes
<1>2. Tail(link[n].out) \in Seq(Commands)
  BY <1>1, HeadTailProperties DEF LinkStates
<1>3. /\ l = [link EXCEPT ![n] = [link[n] EXCEPT !.out = Tail(link[n].out)]]
  OBVIOUS
<1>4. [link[n] EXCEPT !.out = Tail(link[n].out)] \in LinkStates
  BY <1>1, <1>2 DEF LinkStates
<1>5. l \in [Links -> LinkStates] /\ l[n] = [link[n] EXCEPT !.out = Tail(link[n].out)]
      /\ \A k \in Links : k # n => l[k] = link[k]
  BY <1>1, <1>3, <1>4
<1>6. /\ l[n].in = link[n].in /\ l[n].up = link[n].up /\ l[n].bound = link[n].bound
      /\ l[n].heard = link[n].heard /\ l[n].code = link[n].code /\ l[n].out = Tail(link[n].out)
  BY <1>1, <1>5 DEF LinkStates
<1> HIDE DEF l
<1>7. SameLinks(l)
  BY <1>5, <1>6 DEF SameLinks
<1>8. AnswersAs(l, <<e>>)
  <2>1. 1 \in 1..Len(<<e>>) /\ <<e>>[1] = e
    BY OneEvent
  <2>2. hub.sink = n => \E i \in 1..Len(<<e>>) : <<e>>[i].to = Head(link[n].out).id
    BY <2>1
  <2>3. ASSUME NEW k \in Links, k # n PROVE l[k].out = link[k].out
    BY <1>5, <2>3
  <2> QED BY <1>6, <2>2, <2>3 DEF AnswersAs
<1> QED BY <1>7, <1>8 DEF l

\* What is left unsaid stays owed, as what comes after it does.
LEMMA OwedLater ==
  ASSUME DeviceTypes, OwedInOrder, Able, NEW e \in StreamEvents, e.kind \in {"message", "read"}, NEW H2 \in Nat,
         Len(history) <= H2, Ext(e) <= H2, e.kind = "message" => Len(history) < Ext(e)
  PROVE  LET o == Append(hub.owed, e)
         IN /\ o \in Seq(StreamEvents)
            /\ \A i \in DOMAIN o : o[i].kind \in {"message", "read"} /\ Ext(o[i]) <= H2
            /\ \A i, j \in DOMAIN o : i < j /\ o[i].kind = "message" /\ o[j].kind = "message" => Ext(o[i]) < Ext(o[j])
            /\ \A q : Owes(hub.owed, q) => Owes(o, q)
            /\ e.kind = "message" => Owes(o, Ext(e))
<1> DEFINE o == Append(hub.owed, e)
           k == Len(hub.owed)
<1>1. hub.owed \in Seq(StreamEvents) /\ Len(history) \in Nat
  BY LenProperties DEF DeviceTypes, Hubs
<1>2. /\ o \in Seq(StreamEvents) /\ k \in Nat /\ Len(o) = k + 1 /\ o[k + 1] = e
      /\ \A i \in 1..k : o[i] = hub.owed[i]
  BY <1>1, AppendProperties, LenProperties
<1>3. DOMAIN o = 1..(k + 1) /\ DOMAIN hub.owed = 1..k
  BY <1>1, <1>2, LenProperties
<1>4. \A i \in 1..k : Ext(hub.owed[i]) \in Nat /\ Ext(hub.owed[i]) <= Len(history) /\ hub.owed[i].kind \in {"message", "read"}
  BY <1>1, <1>3, ElementOfSeq, EventShape DEF OwedInOrder
<1>5. Ext(e) \in Nat /\ (e.kind = "message" => Ext(e) = e.body.place)
  BY EventShape
<1> HIDE DEF o, k
<1>6. \A i \in DOMAIN o : (i \in 1..k /\ o[i] = hub.owed[i]) \/ (i = k + 1 /\ o[i] = e)
  BY <1>2, <1>3
<1>7. \A i \in DOMAIN o : o[i].kind \in {"message", "read"} /\ Ext(o[i]) <= H2
  BY <1>1, <1>4, <1>5, <1>6
<1>8. ASSUME NEW i \in DOMAIN o, NEW j \in DOMAIN o, i < j, o[i].kind = "message", o[j].kind = "message"
      PROVE  Ext(o[i]) < Ext(o[j])
  <2>1. i \in 1..k /\ o[i] = hub.owed[i]
    BY <1>2, <1>3, <1>6, <1>8
  <2>2. CASE j \in 1..k /\ o[j] = hub.owed[j]
    BY <1>3, <1>8, <2>1, <2>2 DEF OwedInOrder
  <2>3. CASE j = k + 1 /\ o[j] = e
    BY <1>1, <1>4, <1>5, <1>8, <2>1, <2>3
  <2> QED BY <1>6, <2>2, <2>3
<1>9. \A q : Owes(hub.owed, q) => Owes(o, q)
  BY <1>2, <1>3 DEF Owes
<1>10. e.kind = "message" => Owes(o, Ext(e))
  BY <1>2, <1>3, <1>5 DEF Owes
<1> QED BY <1>2, <1>7, <1>8, <1>9, <1>10 DEF o

LEMMA ReadPositionType ==
  ASSUME history \in Seq(Requests \cup {Reply}), NEW p \in Nat PROVE ReadPosition(p) \in ReadBodies
<1>1. Len(history) \in Nat
  BY LenProperties
<1>2. IsFiniteSet(1..Len(history))
  BY <1>1, FS_Interval
<1>3. IsFiniteSet({q \in Places : q > p /\ history[q] = Reply})
  BY <1>2, FS_Subset DEF Places
<1> QED BY <1>3, FS_CardinalityType DEF ReadPosition, ReadBodies, UnreadAfter

\* What one step publishes is quiet: an answer, a read or an event that ended.
LEMMA SaysOne ==
  ASSUME DeviceTypes, NEW h, NEW l, NEW e \in StreamEvents, SameHub(h), SameLinks(l), Publishes(h, l, <<e>>),
         client' = client, history' \in Seq(Requests \cup {Reply}), Len(history) <= Len(history'),
         e.kind \notin {"message", "snapshot"}, e.kind = "unavailable" <=> ~Able,
         \A q \in 1..Len(history') : (q <= Len(history) /\ ~Owes(hub.owed, q)) \/ Owes(h.owed, q)
  PROVE  Tells(h, l, <<e>>) /\ \A i \in 1..Len(<<e>>) : <<e>>[i].kind # "snapshot"
<1>1. /\ <<e>> \in Seq(StreamEvents) /\ \A i \in 1..Len(<<e>>) : <<e>>[i] = e
  BY OneEvent
<1>2. Len(history') \in Nat
  BY LenProperties
<1>3. Fits(<<e>>, Len(history), hub.owed, Len(history'), h.owed)
  BY <1>1, <1>2, QuietFits
<1> QED BY <1>1, <1>3 DEF Tells

LEMMA HeadCommand ==
  ASSUME DeviceTypes, NEW n \in Links, link[n].out # <<>>
  PROVE  LET m == Head(link[n].out)
         IN /\ m \in Commands /\ m.kind \in {"sync", "send", "read"}
            /\ m.kind = "sync" => m.id \in SyncIds /\ m.body \in Positions
            /\ m.kind = "send" => m.id \in SendIds /\ m.id[2] \in Requests /\ m.id = <<"send", m.id[2]>>
            /\ m.kind = "read" => m.id \in ReadIds /\ m.body \in Nat
<1> DEFINE m == Head(link[n].out)
<1>1. m \in Commands
  BY HeadTailProperties DEF DeviceTypes, LinkStates
<1> HIDE DEF m
<1>2. /\ m.kind \in {"sync", "send", "read"}
      /\ m.kind = "sync" => m.id \in SyncIds /\ m.body \in Positions
      /\ m.kind = "send" => m.id \in SendIds
      /\ m.kind = "read" => m.id \in ReadIds /\ m.body \in Nat
  BY <1>1 DEF Commands
<1>3. m.kind = "send" => m.id[2] \in Requests /\ m.id = <<"send", m.id[2]>>
  BY <1>2 DEF SendIds
<1> QED BY <1>1, <1>2, <1>3 DEF m

LEMMA SameAsItself == ASSUME DeviceTypes PROVE SameHub(hub)
BY DEF DeviceTypes, SameHub

\* The events owed by a changed hub are all that its change is.
LEMMA OwesMore ==
  ASSUME DeviceTypes, NEW o \in Seq(StreamEvents), NEW n \in Links
  PROVE  LET h == [hub EXCEPT !.owed = o, !.of = n] IN SameHub(h) /\ h.owed = o
<1>1. n \in Nat
  BY DeviceAssumption DEF Links
<1> QED BY <1>1 DEF DeviceTypes, SameHub, Hubs

\* The order of what is owed, after the step.
LEMMA OwedKept ==
  ASSUME DeviceTypes, OwedInOrder, (Able' <=> Able), hub'.owed = hub.owed, Len(history) <= Len(history'),
         history' \in Seq(Requests \cup {Reply})
  PROVE  OwedInOrder'
<1>1. Len(history) \in Nat /\ Len(history') \in Nat /\ hub.owed \in Seq(StreamEvents)
  BY LenProperties DEF DeviceTypes, Hubs
<1>2. \A i \in DOMAIN hub.owed : Ext(hub.owed[i]) \in Nat
  BY <1>1, LenProperties, ElementOfSeq, EventShape
<1> QED BY <1>1, <1>2 DEF OwedInOrder

LEMMA PlaceOfRequest ==
  ASSUME history \in Seq(Requests \cup {Reply}), NEW r, InHistory(r)
  PROVE  PlaceOf(r) \in Nat
<1>1. Len(history) \in Nat /\ DOMAIN history = 1..Len(history)
  BY LenProperties
<1>2. \E p \in Places : history[p] = r
  BY <1>1 DEF InHistory, Places, Range
<1>3. PlaceOf(r) \in Places
  BY <1>2 DEF PlaceOf
<1> QED BY <1>1, <1>3 DEF Places

\* One more message in the conversation.
LEMMA OneMore ==
  ASSUME DeviceTypes, NEW x \in Requests \cup {Reply}, history' = Append(history, x)
  PROVE  /\ history' \in Seq(Requests \cup {Reply}) /\ Len(history') = Len(history) + 1 /\ Len(history) \in Nat
         /\ Len(history) <= Len(history') /\ history'[Len(history) + 1] = x
         /\ \A i \in 1..Len(history) : history'[i] = history[i]
BY AppendProperties, LenProperties DEF DeviceTypes

LEMMA RecordedOnceMore ==
  ASSUME DeviceTypes, RecordedOnce, NEW x \in Requests \cup {Reply}, history' = Append(history, x),
         x = Reply \/ ~InHistory(x)
  PROVE  RecordedOnce'
<1>1. /\ Len(history') = Len(history) + 1 /\ Len(history) \in Nat /\ history'[Len(history) + 1] = x
      /\ \A i \in 1..Len(history) : history'[i] = history[i]
  BY OneMore
<1>2. DOMAIN history = 1..Len(history)
  BY LenProperties DEF DeviceTypes
<1>3. x = Reply \/ \A i \in 1..Len(history) : history[i] # x
  BY <1>2 DEF InHistory, Range
<1> SUFFICES ASSUME NEW p \in 1..(Len(history) + 1), NEW q \in 1..(Len(history) + 1),
                    history'[p] = history'[q], history'[p] # Reply
             PROVE  p = q
  BY <1>1 DEF RecordedOnce, Places
<1>4. CASE p \in 1..Len(history) /\ q \in 1..Len(history)
  BY <1>1, <1>4 DEF RecordedOnce, Places
<1>5. CASE p = Len(history) + 1 \/ q = Len(history) + 1
  BY <1>1, <1>3, <1>5
<1> QED BY <1>1, <1>4, <1>5

LEMMA AbleStays ==
  ASSUME DeviceTypes, NEW h, NEW l, NEW evs, Tells(h, l, evs) PROVE (Able' <=> Able) /\ hub'.owed = h.owed
BY PublishedHub DEF Tells, SameHub, SameLinks, Able

\* send
LEMMA SendTaken ==
  ASSUME DeviceIInv, NEW n \in Links, link[n].out # <<>>, Head(link[n].out).kind = "send", link[n].bound,
         TakesSend(n, [link EXCEPT ![n].out = Tail(@)], Head(link[n].out)), client' = client
  PROVE  DeviceIInv'
<1> DEFINE m == Head(link[n].out)
           l == [link EXCEPT ![n].out = Tail(@)]
           r == m.id[2]
           p == Len(history) + 1
<1>0. /\ DeviceTypes /\ RecordedOnce /\ LinksInTurn /\ OwedInOrder /\ over' = over /\ readTo' = readTo
      /\ history \in Seq(Requests \cup {Reply})
  BY DEF DeviceIInv, DeviceTypes, TakesSend
<1>1. m.id \in SendIds /\ r \in Requests
  BY <1>0, HeadCommand
<1>2. Len(history) \in Nat /\ p \in Nat \ {0}
  BY <1>0, LenProperties
<1>3. /\ \/ /\ ~Able
            /\ Publishes(hub, l, <<Ev("unavailable", m.id, 0)>>)
            /\ history' = history
         \/ /\ Able
            /\ InHistory(r)
            /\ Publishes(hub, l, <<Ev("accepted", m.id, Answer(PlaceOf(r)))>>)
            /\ history' = history
         \/ /\ Able
            /\ ~InHistory(r)
            /\ history' = Append(history, r)
            /\ Publishes([hub EXCEPT !.owed = Append(hub.owed, Ev("message", Nobody, [place |-> p, own |-> TRUE])),
                                     !.of = n],
                         l, <<Ev("accepted", m.id, Answer(p))>>)
  BY DEF TakesSend
<1>4. over' \in SUBSET Nat /\ readTo' \in Nat
  BY <1>0 DEF DeviceTypes
<1>5. ASSUME NEW e \in StreamEvents, e.to = m.id PROVE SameLinks(l) /\ AnswersAs(l, <<e>>)
  BY <1>0, <1>5, OneTaken
<1>6. \A x \in Nat : /\ Ev("accepted", m.id, Answer(x)) \in StreamEvents
                     /\ Ev("accepted", m.id, Answer(x)).to = m.id /\ Ev("accepted", m.id, Answer(x)).kind = "accepted"
  <2> SUFFICES ASSUME NEW x \in Nat
               PROVE  /\ Ev("accepted", m.id, Answer(x)) \in StreamEvents
                      /\ Ev("accepted", m.id, Answer(x)).to = m.id /\ Ev("accepted", m.id, Answer(x)).kind = "accepted"
    OBVIOUS
  <2> HIDE DEF m
  <2>1. Answer(x) \in [place : Nat, pending : BOOLEAN]
    BY DEF Answer
  <2>2. Ev("accepted", m.id, Answer(x)) \in [kind : {"accepted"}, to : SendIds, body : [place : Nat, pending : BOOLEAN]]
    BY <1>1, <2>1 DEF Ev
  <2> QED BY <2>2 DEF StreamEvents, Ev
<1>7. CASE ~Able /\ Publishes(hub, l, <<Ev("unavailable", m.id, 0)>>) /\ history' = history
  <2> DEFINE e == Ev("unavailable", m.id, 0)
  <2>1. e \in StreamEvents /\ e.to = m.id /\ e.kind = "unavailable"
    <3> HIDE DEF m
    <3>1. e \in [kind : {"unavailable"}, to : SyncIds \cup SendIds \cup ReadIds, body : {0}]
      BY <1>1 DEF Ev
    <3> QED BY <3>1 DEF StreamEvents, Ev
  <2> HIDE DEF e
  <2>2. SameLinks(l) /\ AnswersAs(l, <<e>>) /\ SameHub(hub) /\ Publishes(hub, l, <<e>>)
    BY <1>0, <1>5, <1>7, <2>1, SameAsItself DEF e
  <2> HIDE DEF l
  <2>3. Tells(hub, l, <<e>>) /\ \A i \in 1..Len(<<e>>) : <<e>>[i].kind # "snapshot"
    BY <1>0, <1>2, <1>7, <2>1, <2>2, SaysOne
  <2>4. OwedInOrder'
    BY <1>0, <1>2, <1>7, <2>3, AbleStays, OwedKept
  <2>5. RecordedOnce'
    BY <1>0, <1>7 DEF RecordedOnce, Places
  <2> QED BY <1>4, <2>2, <2>3, <2>4, <2>5, Carried
<1>8. CASE Able /\ InHistory(r) /\ Publishes(hub, l, <<Ev("accepted", m.id, Answer(PlaceOf(r)))>>) /\ history' = history
  <2> DEFINE e == Ev("accepted", m.id, Answer(PlaceOf(r)))
  <2>1. e \in StreamEvents /\ e.to = m.id /\ e.kind = "accepted"
    BY <1>0, <1>6, <1>8, PlaceOfRequest
  <2> HIDE DEF e
  <2>2. SameLinks(l) /\ AnswersAs(l, <<e>>) /\ SameHub(hub) /\ Publishes(hub, l, <<e>>)
    BY <1>0, <1>5, <1>8, <2>1, SameAsItself DEF e
  <2> HIDE DEF l
  <2>3. Tells(hub, l, <<e>>) /\ \A i \in 1..Len(<<e>>) : <<e>>[i].kind # "snapshot"
    BY <1>0, <1>2, <1>8, <2>1, <2>2, SaysOne
  <2>4. OwedInOrder'
    BY <1>0, <1>2, <1>8, <2>3, AbleStays, OwedKept
  <2>5. RecordedOnce'
    BY <1>0, <1>8 DEF RecordedOnce, Places
  <2> QED BY <1>4, <2>2, <2>3, <2>4, <2>5, Carried
<1>9. CASE /\ Able /\ ~InHistory(r) /\ history' = Append(history, r)
           /\ Publishes([hub EXCEPT !.owed = Append(hub.owed, Ev("message", Nobody, [place |-> p, own |-> TRUE])),
                                    !.of = n], l, <<Ev("accepted", m.id, Answer(p))>>)
  <2> DEFINE e == Ev("accepted", m.id, Answer(p))
             f == Ev("message", Nobody, [place |-> p, own |-> TRUE])
             o == Append(hub.owed, f)
             h == [hub EXCEPT !.owed = o, !.of = n]
  <2>1. e \in StreamEvents /\ e.to = m.id /\ e.kind = "accepted"
    BY <1>2, <1>6
  <2>2. f \in StreamEvents /\ f.kind = "message" /\ Ext(f) = p
    <3>1. f \in [kind : {"message"}, to : {Nobody}, body : [place : Nat \ {0}, own : BOOLEAN]]
      BY <1>2 DEF Ev
    <3> QED BY <3>1 DEF StreamEvents, Ev, Ext
  <2>3. /\ history' \in Seq(Requests \cup {Reply}) /\ Len(history') = p /\ Len(history) <= Len(history')
    BY <1>0, <1>1, <1>9, OneMore
  <2> HIDE DEF e, f
  <2>4. /\ o \in Seq(StreamEvents)
        /\ \A i \in DOMAIN o : o[i].kind \in {"message", "read"} /\ Ext(o[i]) <= p
        /\ \A i, j \in DOMAIN o : i < j /\ o[i].kind = "message" /\ o[j].kind = "message" => Ext(o[i]) < Ext(o[j])
        /\ \A q : Owes(hub.owed, q) => Owes(o, q)
        /\ Owes(o, p)
    <3>1. p \in Nat /\ Len(history) <= p /\ Len(history) < p /\ Ext(f) <= p
      BY <1>2, <2>2
    <3> HIDE DEF p
    <3> QED BY <1>0, <1>9, <2>2, <3>1, OwedLater
  <2> HIDE DEF o
  <2>5. SameLinks(l) /\ AnswersAs(l, <<e>>) /\ SameHub(h) /\ h.owed = o /\ Publishes(h, l, <<e>>)
    <3>1. SameLinks(l) /\ AnswersAs(l, <<e>>)
      BY <1>5, <2>1
    <3>2. SameHub(h) /\ h.owed = o
      BY <1>0, <2>4, OwesMore
    <3>3. Publishes(h, l, <<e>>)
      BY <1>9 DEF e, f, o
    <3> QED BY <3>1, <3>2, <3>3
  <2> HIDE DEF l, h
  <2>6. \A q \in 1..Len(history') : (q <= Len(history) /\ ~Owes(hub.owed, q)) \/ Owes(h.owed, q)
    <3>1. \A q \in 1..p : q <= Len(history) \/ q = p
      BY <1>2
    <3> QED BY <2>3, <2>4, <2>5, <3>1
  <2>7. Tells(h, l, <<e>>) /\ \A i \in 1..Len(<<e>>) : <<e>>[i].kind # "snapshot"
    BY <1>0, <1>9, <2>1, <2>3, <2>5, <2>6, SaysOne
  <2>8. (Able' <=> Able) /\ hub'.owed = o
    BY <1>0, <2>5, <2>7, AbleStays
  <2>9. OwedInOrder'
    BY <1>9, <2>3, <2>4, <2>8 DEF OwedInOrder
  <2>10. RecordedOnce'
    BY <1>0, <1>1, <1>9, RecordedOnceMore
  <2> QED BY <1>4, <2>5, <2>7, <2>9, <2>10, Carried
<1> QED BY <1>3, <1>7, <1>8, <1>9

LEMMA ReadEvent ==
  ASSUME DeviceTypes, NEW p \in Nat
  PROVE  LET e == Ev("read", Nobody, ReadPosition(p))
         IN e \in StreamEvents /\ e.kind = "read" /\ Ext(e) = 0
<1>1. ReadPosition(p) \in ReadBodies
  BY ReadPositionType DEF DeviceTypes
<1>2. Ev("read", Nobody, ReadPosition(p)) \in [kind : {"read"}, to : {Nobody}, body : ReadBodies]
  BY <1>1 DEF Ev
<1> QED BY <1>2 DEF StreamEvents, Ev, Ext

LEMMA MarkedReadType == ASSUME readTo \in Nat, NEW p \in Nat PROVE MarkedRead(p) \in Nat /\ MarkedRead(p) >= readTo
BY DEF MarkedRead

\* markRead
LEMMA ReadTaken ==
  ASSUME DeviceIInv, NEW n \in Links, link[n].out # <<>>, Head(link[n].out).kind = "read", link[n].bound,
         TakesRead(n, [link EXCEPT ![n].out = Tail(@)], Head(link[n].out)), client' = client
  PROVE  DeviceIInv'
<1> DEFINE m == Head(link[n].out)
           l == [link EXCEPT ![n].out = Tail(@)]
           p == MarkedRead(m.body)
           f == Ev("read", Nobody, ReadPosition(p))
           o == Append(hub.owed, f)
           h == [hub EXCEPT !.owed = o, !.of = n]
<1>0. /\ DeviceTypes /\ RecordedOnce /\ LinksInTurn /\ OwedInOrder /\ over' = over /\ history' = history
      /\ history \in Seq(Requests \cup {Reply}) /\ Len(history) \in Nat
  BY LenProperties DEF DeviceIInv, DeviceTypes, TakesRead
<1>1. m.id \in ReadIds /\ m.body \in Nat
  BY <1>0, HeadCommand
<1>2. /\ \/ /\ ~Able
            /\ Publishes(hub, l, <<Ev("unavailable", m.id, 0)>>)
            /\ readTo' = readTo
         \/ /\ Able
            /\ readTo' = p
            /\ Publishes(IF p = readTo THEN hub ELSE h, l, <<Ev("accepted", m.id, ReadPosition(p))>>)
  BY DEF TakesRead
<1>3. p \in Nat
  BY <1>0, <1>1, MarkedReadType DEF DeviceTypes
<1>4. over' \in SUBSET Nat /\ readTo' \in Nat
  BY <1>0, <1>2, <1>3 DEF DeviceTypes
<1>5. ASSUME NEW e \in StreamEvents, e.to = m.id PROVE SameLinks(l) /\ AnswersAs(l, <<e>>)
  BY <1>0, <1>5, OneTaken
<1>6. RecordedOnce'
  BY <1>0 DEF RecordedOnce, Places
<1>7. CASE ~Able /\ Publishes(hub, l, <<Ev("unavailable", m.id, 0)>>)
  <2> DEFINE e == Ev("unavailable", m.id, 0)
  <2>1. e \in StreamEvents /\ e.to = m.id /\ e.kind = "unavailable"
    <3> HIDE DEF m
    <3>1. e \in [kind : {"unavailable"}, to : SyncIds \cup SendIds \cup ReadIds, body : {0}]
      BY <1>1 DEF Ev
    <3> QED BY <3>1 DEF StreamEvents, Ev
  <2> HIDE DEF e
  <2>2. SameLinks(l) /\ AnswersAs(l, <<e>>) /\ SameHub(hub) /\ Publishes(hub, l, <<e>>)
    BY <1>0, <1>5, <1>7, <2>1, SameAsItself DEF e
  <2> HIDE DEF l
  <2>3. Tells(hub, l, <<e>>) /\ \A i \in 1..Len(<<e>>) : <<e>>[i].kind # "snapshot"
    BY <1>0, <1>7, <2>1, <2>2, SaysOne
  <2>4. OwedInOrder'
    BY <1>0, <2>3, AbleStays, OwedKept
  <2> QED BY <1>4, <1>6, <2>2, <2>3, <2>4, Carried
<1>8. CASE Able /\ Publishes(IF p = readTo THEN hub ELSE h, l, <<Ev("accepted", m.id, ReadPosition(p))>>)
  <2> DEFINE e == Ev("accepted", m.id, ReadPosition(p))
             g == IF p = readTo THEN hub ELSE h
  <2>1. e \in StreamEvents /\ e.to = m.id /\ e.kind = "accepted"
    <3>1. ReadPosition(p) \in ReadBodies
      BY <1>0, <1>3, ReadPositionType
    <3> HIDE DEF m, p
    <3>2. e \in [kind : {"accepted"}, to : ReadIds, body : ReadBodies]
      BY <1>1, <3>1 DEF Ev
    <3> QED BY <3>2 DEF StreamEvents, Ev
  <2>2. f \in StreamEvents /\ f.kind = "read" /\ Ext(f) = 0
    BY <1>0, <1>3, ReadEvent
  <2>3. g = hub \/ g = h
    OBVIOUS
  <2>4. Publishes(g, l, <<e>>)
    BY <1>8
  <2> HIDE DEF e, f
  <2>5. /\ o \in Seq(StreamEvents)
        /\ \A i \in DOMAIN o : o[i].kind \in {"message", "read"} /\ Ext(o[i]) <= Len(history)
        /\ \A i, j \in DOMAIN o : i < j /\ o[i].kind = "message" /\ o[j].kind = "message" => Ext(o[i]) < Ext(o[j])
        /\ \A q : Owes(hub.owed, q) => Owes(o, q)
    <3>1. Ext(f) <= Len(history) /\ Len(history) <= Len(history)
      BY <1>0, <2>2
    <3> QED BY <1>0, <1>8, <2>2, <3>1, OwedLater
  <2> HIDE DEF o
  <2>6. SameHub(hub) /\ SameHub(h) /\ h.owed = o
    BY <1>0, <2>5, OwesMore, SameAsItself
  <2>7. SameLinks(l) /\ AnswersAs(l, <<e>>)
    BY <1>5, <2>1
  <2> HIDE DEF l, h, g, p
  <2>8. SameHub(g) /\ (g.owed = hub.owed \/ g.owed = o)
    BY <2>3, <2>6
  <2>9. \A q \in 1..Len(history') : (q <= Len(history) /\ ~Owes(hub.owed, q)) \/ Owes(g.owed, q)
    BY <1>0, <2>5, <2>8
  <2>10. Tells(g, l, <<e>>) /\ \A i \in 1..Len(<<e>>) : <<e>>[i].kind # "snapshot"
    BY <1>0, <1>8, <2>1, <2>4, <2>7, <2>8, <2>9, SaysOne
  <2>11. (Able' <=> Able) /\ hub'.owed = g.owed
    BY <1>0, <2>10, AbleStays
  <2>12. OwedInOrder'
    <3>1. CASE g.owed = hub.owed
      BY <1>0, <2>11, <3>1, OwedKept
    <3>2. CASE g.owed = o
      BY <1>0, <1>8, <2>5, <2>11, <3>2 DEF OwedInOrder
    <3> QED BY <2>8, <3>1, <3>2
  <2> QED BY <1>4, <1>6, <2>7, <2>10, <2>12, Carried
<1> QED BY <1>2, <1>7, <1>8

\* The microtasks of send and markRead.
LEMMA Emitted ==
  ASSUME DeviceIInv, ServerEmits PROVE DeviceIInv'
<1> DEFINE evs == hub.owed
           h == [hub EXCEPT !.owed = <<>>, !.of = 0]
           H == Len(history)
<1>0. /\ DeviceTypes /\ RecordedOnce /\ OwedInOrder
      /\ history' = history /\ over' = over /\ readTo' = readTo /\ client' = client
      /\ Publishes(h, link, evs) /\ evs # <<>>
  BY DEF DeviceIInv, ServerEmits
<1>1. /\ history \in Seq(Requests \cup {Reply}) /\ H \in Nat /\ evs \in Seq(StreamEvents)
      /\ Len(evs) \in Nat /\ DOMAIN evs = 1..Len(evs)
  BY <1>0, LenProperties DEF DeviceTypes, Hubs
<1>2. /\ Able
      /\ \A i \in 1..Len(evs) : evs[i] \in StreamEvents /\ evs[i].kind \in {"message", "read"} /\ Ext(evs[i]) <= H
      /\ \A i, j \in 1..Len(evs) :
           i < j /\ evs[i].kind = "message" /\ evs[j].kind = "message" => Ext(evs[i]) < Ext(evs[j])
  BY <1>0, <1>1, ElementOfSeq DEF OwedInOrder
<1>3. SameHub(h) /\ h.owed = <<>>
  <2>1. hub \in Hubs /\ <<>> \in Seq(StreamEvents) /\ 0 \in Nat
    BY <1>0, EmptySeq DEF DeviceTypes
  <2>2. h \in Hubs /\ h.owed = <<>>
    BY <2>1 DEF Hubs
  <2>3. h.epoch = hub.epoch /\ h.loop = hub.loop /\ h.last = hub.last /\ h.log = hub.log /\ h.sink = hub.sink
    BY <2>1 DEF Hubs
  <2> QED BY <2>2, <2>3 DEF SameHub
<1>4. SameLinks(link) /\ AnswersAs(link, evs)
  BY <1>0, NoneTaken
<1> HIDE DEF h
<1>5. \A q : Owes(evs, q) <=> \E i \in 1..Len(evs) : evs[i].kind = "message" /\ Ext(evs[i]) = q
  <2>1. \A i \in 1..Len(evs) : evs[i].kind = "message" => Ext(evs[i]) = evs[i].body.place
    BY <1>2, EventShape
  <2> QED BY <1>1, <2>1 DEF Owes
<1>6. Fits(evs, H, evs, H, <<>>)
  <2>1. ASSUME NEW i \in 1..Len(evs), evs[i].kind = "message"
        PROVE  \/ Ext(evs[i]) = 1
               \/ Ext(evs[i]) - 1 \in 1..H /\ ~Owes(evs, Ext(evs[i]) - 1)
               \/ \E j \in 1..(i - 1) : Ext(evs[i]) <= Ext(evs[j]) + 1
    <3>1. Ext(evs[i]) \in Nat \ {0} /\ Ext(evs[i]) <= H
      BY <1>2, <2>1, EventShape
    <3>2. CASE Ext(evs[i]) # 1 /\ Owes(evs, Ext(evs[i]) - 1)
      <4>1. PICK j \in 1..Len(evs) : evs[j].kind = "message" /\ Ext(evs[j]) = Ext(evs[i]) - 1
        BY <1>5, <3>2
      <4>2. j < i
        BY <1>1, <1>2, <2>1, <3>1, <4>1
      <4>3. j \in 1..(i - 1) /\ Ext(evs[i]) <= Ext(evs[j]) + 1
        BY <1>1, <3>1, <4>1, <4>2
      <4> QED BY <4>3
    <3> QED BY <1>1, <3>1, <3>2
  <2>2. \A q \in 1..H : \/ q <= H /\ ~Owes(evs, q)
                        \/ Owes(<<>>, q)
                        \/ \E i \in 1..Len(evs) : q <= Ext(evs[i])
    <3> SUFFICES ASSUME NEW q \in 1..H, Owes(evs, q) PROVE \E i \in 1..Len(evs) : q <= Ext(evs[i])
      BY <1>1
    <3> QED BY <1>5
  <2>3. \A i \in 1..Len(evs) : Ext(evs[i]) <= H /\ evs[i].kind # "snapshot"
    BY <1>2
  <2> HIDE DEF evs, H
  <2> QED BY <2>1, <2>2, <2>3 DEF Fits
<1>7. /\ \A i \in 1..Len(evs) : evs[i].kind = "unavailable" <=> ~Able
      /\ \A i \in 1..Len(evs) : evs[i].kind # "snapshot"
  BY <1>2
<1>8. Tells(h, link, evs)
  BY <1>0, <1>1, <1>3, <1>4, <1>6, <1>7 DEF Tells
<1>9. OwedInOrder'
  BY <1>0, <1>3, <1>8, AbleStays DEF OwedInOrder
<1>10. over' \in SUBSET Nat /\ readTo' \in Nat
  BY <1>0 DEF DeviceTypes
<1>11. RecordedOnce'
  BY <1>0 DEF RecordedOnce, Places
<1> HIDE DEF evs
<1> QED BY <1>4, <1>7, <1>8, <1>9, <1>10, <1>11, Carried

\* What a step tells at once, with nothing owed.
LEMMA ToldAtOnce ==
  ASSUME DeviceIInv, NEW e \in StreamEvents, e.kind \in {"completed", "read"}, Able, hub.owed = <<>>,
         Publishes(hub, link, <<e>>), history' = history, client' = client, over' \in SUBSET Nat, readTo' \in Nat
  PROVE  DeviceIInv'
<1>1. /\ DeviceTypes /\ RecordedOnce /\ OwedInOrder
      /\ history \in Seq(Requests \cup {Reply}) /\ Len(history) \in Nat
  BY LenProperties DEF DeviceIInv, DeviceTypes
<1>2. SameHub(hub) /\ SameLinks(link) /\ AnswersAs(link, <<e>>)
  BY <1>1, NoneTaken, SameAsItself
<1>3. Tells(hub, link, <<e>>) /\ \A i \in 1..Len(<<e>>) : <<e>>[i].kind # "snapshot"
  BY <1>1, <1>2, SaysOne
<1>4. OwedInOrder'
  BY <1>1, <1>3, AbleStays, OwedKept
<1>5. RecordedOnce'
  BY <1>1 DEF RecordedOnce, Places
<1> QED BY <1>2, <1>3, <1>4, <1>5, Carried

LEMMA Completed ==
  ASSUME DeviceIInv, NEW p \in Places, EventCompletes(p) PROVE DeviceIInv'
<1>1. DeviceTypes /\ p \in Nat
  BY LenProperties DEF DeviceIInv, DeviceTypes, Places
<1> DEFINE e == Ev("completed", Nobody, p)
<1>2. e \in StreamEvents /\ e.kind = "completed"
  <2>1. e \in [kind : {"completed"}, to : {Nobody}, body : Nat]
    BY <1>1 DEF Ev
  <2> QED BY <2>1 DEF StreamEvents, Ev
<1>3. over' \in SUBSET Nat /\ readTo' \in Nat
  BY <1>1 DEF EventCompletes, DeviceTypes
<1>4. /\ Able /\ hub.owed = <<>> /\ Publishes(hub, link, <<e>>) /\ history' = history /\ client' = client
  BY DEF EventCompletes
<1> HIDE DEF e
<1> QED BY <1>2, <1>3, <1>4, ToldAtOnce

LEMMA OtherRead ==
  ASSUME DeviceIInv, NEW p \in Places, OtherDeviceReads(p) PROVE DeviceIInv'
<1>1. DeviceTypes /\ p \in Nat
  BY LenProperties DEF DeviceIInv, DeviceTypes, Places
<1> DEFINE e == Ev("read", Nobody, ReadPosition(MarkedRead(p)))
<1>2. MarkedRead(p) \in Nat
  BY <1>1, MarkedReadType DEF DeviceTypes
<1>3. e \in StreamEvents /\ e.kind = "read"
  BY <1>1, <1>2, ReadEvent
<1>4. over' \in SUBSET Nat /\ readTo' \in Nat
  BY <1>1, <1>2 DEF OtherDeviceReads, DeviceTypes
<1>5. /\ Able /\ hub.owed = <<>> /\ Publishes(hub, link, <<e>>) /\ history' = history /\ client' = client
  BY DEF OtherDeviceReads
<1> HIDE DEF e
<1> QED BY <1>3, <1>4, <1>5, ToldAtOnce

\* reply
LEMMA Replied ==
  ASSUME DeviceIInv, SheReplies PROVE DeviceIInv'
<1> DEFINE H == Len(history)
           e == Ev("message", Nobody, [place |-> H + 1, own |-> FALSE])
<1>0. /\ DeviceTypes /\ RecordedOnce /\ OwedInOrder /\ Able /\ hub.owed = <<>>
      /\ history' = Append(history, Reply) /\ Publishes(hub, link, <<e>>)
      /\ over' = over /\ readTo' = readTo /\ client' = client
  BY DEF DeviceIInv, SheReplies
<1>1. /\ history' \in Seq(Requests \cup {Reply}) /\ Len(history') = H + 1 /\ H \in Nat /\ H <= Len(history')
  BY <1>0, OneMore
<1>2. e \in StreamEvents /\ e.kind = "message" /\ Ext(e) = H + 1
  <2>1. e \in [kind : {"message"}, to : {Nobody}, body : [place : Nat \ {0}, own : BOOLEAN]]
    BY <1>1 DEF Ev
  <2> QED BY <2>1 DEF StreamEvents, Ev, Ext
<1> HIDE DEF e
<1>3. /\ <<e>> \in Seq(StreamEvents) /\ Len(<<e>>) = 1 /\ \A i \in 1..Len(<<e>>) : i = 1 /\ <<e>>[i] = e
  BY <1>2, OneEvent
<1>4. \A q : ~Owes(hub.owed, q)
  BY <1>0 DEF Owes
<1>5. Fits(<<e>>, H, hub.owed, H + 1, hub.owed)
  <2>1. ASSUME NEW i \in 1..Len(<<e>>)
        PROVE  /\ Ext(<<e>>[i]) <= H + 1
               /\ <<e>>[i].kind = "message" => Ext(<<e>>[i]) = 1 \/ (Ext(<<e>>[i]) - 1 \in 1..H /\ ~Owes(hub.owed, Ext(<<e>>[i]) - 1))
               /\ <<e>>[i].kind # "snapshot"
    <3>1. <<e>>[i] = e
      BY <1>3
    <3>2. H + 1 <= H + 1 /\ (H + 1 = 1 \/ (H + 1) - 1 \in 1..H)
      BY <1>1
    <3> QED BY <1>2, <1>4, <3>1, <3>2
  <2>2. \A q \in 1..(H + 1) : \/ q <= H /\ ~Owes(hub.owed, q)
                              \/ \E i \in 1..Len(<<e>>) : q <= Ext(<<e>>[i])
    <3> SUFFICES ASSUME NEW q \in 1..(H + 1), ~(q <= H) PROVE \E i \in 1..Len(<<e>>) : q <= Ext(<<e>>[i])
      BY <1>4
    <3>1. 1 \in 1..Len(<<e>>) /\ <<e>>[1] = e /\ q <= H + 1
      BY <1>1, <1>3
    <3> QED BY <1>2, <3>1
  <2> HIDE DEF H
  <2> QED BY <2>1, <2>2 DEF Fits
<1>6. /\ \A i \in 1..Len(<<e>>) : <<e>>[i].kind = "unavailable" <=> ~Able
      /\ \A i \in 1..Len(<<e>>) : <<e>>[i].kind # "snapshot"
  BY <1>0, <1>2, <1>3
<1>7. SameHub(hub) /\ SameLinks(link) /\ AnswersAs(link, <<e>>)
  BY <1>0, NoneTaken, SameAsItself
<1>8. Tells(hub, link, <<e>>)
  BY <1>0, <1>1, <1>3, <1>5, <1>6, <1>7 DEF Tells
<1>9. OwedInOrder'
  BY <1>0, <1>1, <1>8, AbleStays, OwedKept
<1>10. over' \in SUBSET Nat /\ readTo' \in Nat
  BY <1>0 DEF DeviceTypes
<1>11. RecordedOnce'
  BY <1>0, RecordedOnceMore
<1> QED BY <1>6, <1>7, <1>8, <1>9, <1>10, <1>11, Carried

-----------------------------------------------------------------------------
\* sync: the device's stream goes on on the connection that asks for it.

\* The last d of a sequence.
LEMMA EndOfSeq ==
  ASSUME NEW S, NEW s \in Seq(S), NEW d \in 0..Len(s)
  PROVE  LET t == SubSeq(s, Len(s) - d + 1, Len(s))
         IN /\ t \in Seq(S) /\ Len(t) = d
            /\ \A i \in 1..d : t[i] = s[Len(s) - d + i]
<1>0. Len(s) \in Nat
  BY LenProperties
<1>1. d \in Nat /\ d <= Len(s)
  BY <1>0
<1>3. \A i \in (Len(s) - d + 1)..Len(s) : s[i] \in S
  BY <1>0, <1>1, ElementOfSeq
<1>4. /\ SubSeq(s, Len(s) - d + 1, Len(s)) \in Seq(S)
      /\ Len(SubSeq(s, Len(s) - d + 1, Len(s))) =
           IF Len(s) - d + 1 <= Len(s) THEN Len(s) - (Len(s) - d + 1) + 1 ELSE 0
      /\ \A i \in 1..(Len(s) - (Len(s) - d + 1) + 1) :
           SubSeq(s, Len(s) - d + 1, Len(s))[i] = s[(Len(s) - d + 1) + i - 1]
  BY <1>0, <1>1, <1>3, SubSeqProperties
<1>5. Len(SubSeq(s, Len(s) - d + 1, Len(s))) = d
  BY <1>0, <1>1, <1>4
<1>6. \A i \in 1..d : SubSeq(s, Len(s) - d + 1, Len(s))[i] = s[Len(s) - d + i]
  BY <1>0, <1>1, <1>4
<1> QED BY <1>4, <1>5, <1>6

\* What was missed is what the buffer has after the place.
Behind(h, at) == SubSeq(h.log, Len(h.log) - (h.last - at[2]) + 1, Len(h.log))
AsOf(h, at) == [h EXCEPT !.last = at[2]]

LEMMA MissedTexts ==
  ASSUME NEW h \in Hubs, NEW at \in Positions, Replayable(h, at), Len(h.log) <= h.last
  PROVE  /\ Behind(h, at) \in Seq(StreamEvents) /\ Len(Behind(h, at)) = h.last - at[2]
         /\ \A i \in 1..(h.last - at[2]) : Behind(h, at)[i] = h.log[Len(h.log) - (h.last - at[2]) + i]
         /\ Missed(h, at) = Texts(AsOf(h, at), Behind(h, at))
         /\ AsOf(h, at) \in Hubs /\ AsOf(h, at).last = at[2] /\ AsOf(h, at).epoch = h.epoch
         /\ AsOf(h, at).loop = h.loop
<1> DEFINE k == Len(h.log)
           d == h.last - at[2]
           g == [h EXCEPT !.last = h.last - k]
<1>1. /\ h.log \in Seq(StreamEvents) /\ k \in Nat /\ h.last \in Nat /\ h.epoch \in Nat /\ at[2] \in Nat
      /\ at[2] <= h.last /\ d <= k
  BY LenProperties DEF Hubs, Positions, Replayable
<1>2. d \in 0..k /\ h.last - k \in Nat
  BY <1>1
<1>3. /\ Behind(h, at) \in Seq(StreamEvents) /\ Len(Behind(h, at)) = d
      /\ \A i \in 1..d : Behind(h, at)[i] = h.log[k - d + i]
  BY <1>1, <1>2, EndOfSeq DEF Behind
<1>4. /\ AsOf(h, at) \in Hubs /\ AsOf(h, at).last = at[2] /\ AsOf(h, at).epoch = h.epoch /\ AsOf(h, at).loop = h.loop
  BY <1>1 DEF AsOf, Hubs
<1>5. g.epoch = h.epoch /\ g.last = h.last - k
  BY DEF Hubs
<1> HIDE DEF g
<1>6. /\ Texts(g, h.log) \in Seq(SentEvents) /\ Len(Texts(g, h.log)) = k
      /\ \A i \in 1..k : Texts(g, h.log)[i] = [at |-> <<h.epoch, (h.last - k) + i>>, ev |-> h.log[i]]
  BY <1>1, <1>2, <1>5, TextsOfEvents
<1>7. Missed(h, at) = SubSeq(Texts(g, h.log), k - d + 1, k)
  BY DEF Missed, g
<1>8. /\ Missed(h, at) \in Seq(SentEvents) /\ Len(Missed(h, at)) = d
      /\ \A i \in 1..d : Missed(h, at)[i] = Texts(g, h.log)[k - d + i]
  <2> DEFINE T == Texts(g, h.log)
  <2>1. T \in Seq(SentEvents) /\ Len(T) = k /\ d \in 0..Len(T) /\ Missed(h, at) = SubSeq(T, Len(T) - d + 1, Len(T))
    BY <1>2, <1>6, <1>7
  <2> HIDE DEF T, d, k
  <2>2. LET t == SubSeq(T, Len(T) - d + 1, Len(T))
        IN t \in Seq(SentEvents) /\ Len(t) = d /\ \A i \in 1..d : t[i] = T[Len(T) - d + i]
    BY <2>1, EndOfSeq
  <2> QED BY <2>1, <2>2 DEF T
<1>9. /\ Texts(AsOf(h, at), Behind(h, at)) \in Seq(SentEvents) /\ Len(Texts(AsOf(h, at), Behind(h, at))) = d
      /\ \A i \in 1..d : Texts(AsOf(h, at), Behind(h, at))[i] = [at |-> <<h.epoch, at[2] + i>>, ev |-> Behind(h, at)[i]]
  BY <1>1, <1>3, <1>4, TextsOfEvents, SMTT(30)
<1>10. ASSUME NEW i \in 1..d PROVE Missed(h, at)[i] = Texts(AsOf(h, at), Behind(h, at))[i]
  <2>1. k - d + i \in 1..k /\ (h.last - k) + (k - d + i) = at[2] + i
    <3>1. k \in Nat /\ d \in 0..k /\ h.last \in Nat /\ at[2] \in Nat /\ d = h.last - at[2]
      BY <1>1, <1>2
    <3>2. \A x, y, z, w, j \in Nat : j \in 1..z /\ z <= x /\ z = y - w =>
            x - z + j \in 1..x /\ (y - x) + (x - z + j) = w + j
      OBVIOUS
    <3>3. d \in Nat /\ d <= k /\ i \in Nat /\ i \in 1..d
      BY <3>1
    <3> HIDE DEF k, d
    <3> QED BY <3>1, <3>2, <3>3, SMTT(30)
  <2>2. Missed(h, at)[i] = [at |-> <<h.epoch, (h.last - k) + (k - d + i)>>, ev |-> h.log[k - d + i]]
    BY <1>6, <1>8, <2>1
  <2>3. Texts(AsOf(h, at), Behind(h, at))[i] = [at |-> <<h.epoch, at[2] + i>>, ev |-> h.log[k - d + i]]
    BY <1>3, <1>9
  <2> QED BY <2>1, <2>2, <2>3
<1>11. Missed(h, at) = Texts(AsOf(h, at), Behind(h, at))
  BY <1>8, <1>9, <1>10, SeqEqual
<1> QED BY <1>3, <1>4, <1>11

LEMMA BodiesOfNew ==
  ASSUME NEW evs \in Seq(StreamEvents), NEW h \in Hubs PROVE Bodies(Texts(h, evs)) = evs
<1>1. h.epoch \in Nat /\ h.last \in Nat
  BY DEF Hubs
<1>2. /\ Texts(h, evs) \in Seq(SentEvents) /\ Len(Texts(h, evs)) = Len(evs) /\ Len(evs) \in Nat
      /\ \A i \in 1..Len(evs) : Texts(h, evs)[i] = [at |-> <<h.epoch, h.last + i>>, ev |-> evs[i]]
  BY <1>1, TextsOfEvents, LenProperties
<1>3. /\ Bodies(Texts(h, evs)) \in Seq(StreamEvents) /\ Len(Bodies(Texts(h, evs))) = Len(evs)
      /\ \A i \in 1..Len(evs) : Bodies(Texts(h, evs))[i] = Texts(h, evs)[i].ev
  BY <1>2, BodiesOfTexts
<1>4. ASSUME NEW i \in 1..Len(evs) PROVE Bodies(Texts(h, evs))[i] = evs[i]
  <2>1. Texts(h, evs)[i] = [at |-> <<h.epoch, h.last + i>>, ev |-> evs[i]]
    BY <1>2
  <2>2. Texts(h, evs)[i].ev = evs[i]
    BY <2>1
  <2> QED BY <1>3, <2>2
<1> QED BY <1>3, <1>4, SeqEqual

\* The connections once n has the device.
LEMMA BoundLinks ==
  ASSUME NEW l \in [Links -> LinkStates], NEW n \in Links
  PROVE  /\ Bound(l, n) \in [Links -> LinkStates]
         /\ \A k \in Links :
              /\ Bound(l, n)[k].in = l[k].in /\ Bound(l, n)[k].out = l[k].out /\ Bound(l, n)[k].heard = l[k].heard
              /\ Bound(l, n)[k].bound <=> k = n
              /\ Bound(l, n)[k].up = (IF k # n /\ l[k].bound /\ l[k].up = "open" THEN "closing" ELSE l[k].up)
              /\ ~l[k].bound => Bound(l, n)[k].code = l[k].code
<1>1. \A k \in Links : l[k] \in LinkStates
  OBVIOUS
<1>2. ASSUME NEW k \in Links
      PROVE  /\ Bound(l, n)[k] \in LinkStates
             /\ Bound(l, n)[k].in = l[k].in /\ Bound(l, n)[k].out = l[k].out /\ Bound(l, n)[k].heard = l[k].heard
             /\ Bound(l, n)[k].bound <=> k = n
             /\ Bound(l, n)[k].up = (IF k # n /\ l[k].bound /\ l[k].up = "open" THEN "closing" ELSE l[k].up)
             /\ ~l[k].bound => Bound(l, n)[k].code = l[k].code
  <2>1. CASE k = n
    <3>1. Bound(l, n)[k] = [l[k] EXCEPT !.bound = TRUE]
      BY <2>1 DEF Bound
    <3> QED BY <1>1, <2>1, <3>1 DEF LinkStates
  <2>2. CASE k # n /\ l[k].bound /\ l[k].up = "open"
    <3>1. Bound(l, n)[k] = [l[k] EXCEPT !.bound = FALSE, !.up = "closing", !.code = "replaced"]
      BY <2>2 DEF Bound
    <3> QED BY <1>1, <2>2, <3>1 DEF LinkStates
  <2>3. CASE k # n /\ ~(l[k].bound /\ l[k].up = "open")
    <3>1. Bound(l, n)[k] = [l[k] EXCEPT !.bound = FALSE]
      BY <2>3 DEF Bound
    <3> QED BY <1>1, <2>3, <3>1 DEF LinkStates
  <2> QED BY <2>1, <2>2, <2>3
<1>3. DOMAIN Bound(l, n) = Links /\ Bound(l, n) = [k \in Links |-> Bound(l, n)[k]]
  BY DEF Bound
<1> HIDE DEF Bound
<1> QED BY <1>2, <1>3

\* What a connection that is open and heard is sent.
LEMMA DeliveredLinks ==
  ASSUME NEW l \in [Links -> LinkStates], NEW n \in Links, NEW texts \in Seq(SentEvents)
  PROVE  /\ Delivered(l, n, texts) \in [Links -> LinkStates]
         /\ \A k \in Links :
              /\ Delivered(l, n, texts)[k].out = l[k].out /\ Delivered(l, n, texts)[k].heard = l[k].heard
              /\ Delivered(l, n, texts)[k].bound = l[k].bound /\ Delivered(l, n, texts)[k].up = l[k].up
              /\ Delivered(l, n, texts)[k].code = l[k].code
              /\ k = n /\ l[k].up = "open" /\ l[k].heard => Delivered(l, n, texts)[k].in = l[k].in \o texts
              /\ ~(k = n /\ l[k].up = "open" /\ l[k].heard) => Delivered(l, n, texts)[k].in = l[k].in
<1>1. n # 0
  BY DeviceAssumption DEF Links
<1>2. CASE l[n].up = "open" /\ l[n].heard
  <2>1. l[n].in \o texts \in Seq(SentEvents)
    BY Joined DEF LinkStates
  <2>2. Delivered(l, n, texts) = [l EXCEPT ![n].in = l[n].in \o texts]
    BY <1>1, <1>2 DEF Delivered
  <2>3. l[n] \in LinkStates /\ l = [k \in Links |-> l[k]]
    OBVIOUS
  <2> DEFINE a == l[n].in \o texts
             b == [l[n] EXCEPT !.in = a]
  <2>4. a \in Seq(SentEvents)
    BY <2>1
  <2> HIDE DEF a
  <2>5. /\ b \in LinkStates /\ b.in = a /\ b.out = l[n].out /\ b.heard = l[n].heard
        /\ b.bound = l[n].bound /\ b.up = l[n].up /\ b.code = l[n].code
    BY <2>3, <2>4 DEF LinkStates
  <2>6. Delivered(l, n, texts) = [l EXCEPT ![n] = b]
    BY <2>2, <2>3 DEF a
  <2> HIDE DEF b
  <2>7. /\ Delivered(l, n, texts) \in [Links -> LinkStates] /\ Delivered(l, n, texts)[n] = b
        /\ \A k \in Links : k # n => Delivered(l, n, texts)[k] = l[k]
    BY <2>5, <2>6
  <2> QED BY <1>2, <2>5, <2>7 DEF a
<1>3. CASE ~(l[n].up = "open" /\ l[n].heard)
  <2>1. Delivered(l, n, texts) = l
    BY <1>3 DEF Delivered
  <2> QED BY <1>3, <2>1
<1> QED BY <1>2, <1>3

\* What a sync does: the connection has the device, and hears what it missed and the answer.
Rebinds(n, e, missed) ==
  /\ hub' \in Hubs /\ hub'.epoch = hub.epoch /\ hub'.loop = hub.loop /\ hub'.last = hub.last + 1
  /\ hub'.log = Kept(hub.log \o <<e>>) /\ hub'.owed = hub.owed /\ hub'.sink = n
  /\ link' \in [Links -> LinkStates]
  /\ \A k \in Links :
       /\ link'[k].heard = link[k].heard /\ (link'[k].bound <=> k = n)
       /\ link'[k].up = (IF k # n /\ link[k].bound /\ link[k].up = "open" THEN "closing" ELSE link[k].up)
       /\ k = n => link'[k].out = Tail(link[k].out)
       /\ k # n => link'[k].out = link[k].out
       /\ ~link[k].bound => link'[k].code = link[k].code
       /\ k = n /\ link[k].up = "open" /\ link[k].heard => link'[k].in = (link[k].in \o missed) \o Texts(hub, <<e>>)
       /\ ~(k = n /\ link[k].up = "open" /\ link[k].heard) => link'[k].in = link[k].in
  /\ history' = history /\ over' = over /\ readTo' = readTo /\ client' = client

SyncSays(m, e, missed) ==
  \/ ~Able /\ missed = <<>> /\ e = Ev("unavailable", m.id, 0)
  \/ /\ Able /\ Replayable(hub, m.body) /\ missed = Missed(hub, m.body)
     /\ e = Ev("accepted", m.id, 0)
  \/ Able /\ ~Replayable(hub, m.body) /\ missed = <<>> /\ e = SnapshotEvent(m.id)

LEMMA TakenLinks ==
  ASSUME DeviceTypes, NEW n \in Links, link[n].out # <<>>
  PROVE  LET l == [link EXCEPT ![n].out = Tail(@)]
         IN /\ SameLinks(l) /\ l \in [Links -> LinkStates] /\ l[n].out = Tail(link[n].out)
            /\ \A k \in Links : k # n => l[k].out = link[k].out
<1> DEFINE l == [link EXCEPT ![n].out = Tail(@)]
<1>1. SameLinks(l) /\ l \in [Links -> LinkStates] /\ l[n].out = Tail(link[n].out) /\ \A k \in Links : k # n => l[k].out = link[k].out
  <2>1. link[n] \in LinkStates /\ link \in [Links -> LinkStates]
    BY DEF DeviceTypes
  <2>2. Tail(link[n].out) \in Seq(Commands)
    BY <2>1, HeadTailProperties DEF LinkStates
  <2> DEFINE x == [link[n] EXCEPT !.out = Tail(link[n].out)]
  <2>3. /\ x \in LinkStates /\ x.out = Tail(link[n].out) /\ x.in = link[n].in /\ x.up = link[n].up
        /\ x.bound = link[n].bound /\ x.heard = link[n].heard /\ x.code = link[n].code
    BY <2>1, <2>2 DEF LinkStates
  <2>4. l = [link EXCEPT ![n] = x]
    OBVIOUS
  <2> HIDE DEF x
  <2>5. l \in [Links -> LinkStates] /\ l[n] = x /\ \A k \in Links : k # n => l[k] = link[k]
    BY <2>1, <2>3, <2>4
  <2> HIDE DEF l
  <2>6. SameLinks(l)
    <3> SUFFICES ASSUME NEW k \in Links
                 PROVE  /\ l[k].in = link[k].in /\ l[k].up = link[k].up /\ l[k].bound = link[k].bound
                        /\ l[k].heard = link[k].heard /\ l[k].code = link[k].code
                        /\ l[k].out = link[k].out \/ (link[k].out # <<>> /\ l[k].out = Tail(link[k].out))
      BY <2>5 DEF SameLinks
    <3> QED BY <2>3, <2>5
  <2> QED BY <2>3, <2>5, <2>6
<1> QED BY <1>1 DEF l

LEMMA PublishedTo ==
  ASSUME DeviceTypes, NEW n \in Links, link[n].out # <<>>, NEW missed \in Seq(SentEvents), NEW e \in StreamEvents,
         LET l == [link EXCEPT ![n].out = Tail(@)]
         IN Publishes([hub EXCEPT !.sink = n], Delivered(Bound(l, n), n, missed), <<e>>),
         history' = history, over' = over, readTo' = readTo, client' = client
  PROVE  Rebinds(n, e, missed)
<1> DEFINE l == [link EXCEPT ![n].out = Tail(@)]
           h == [hub EXCEPT !.sink = n]
           b == Bound(l, n)
           d == Delivered(b, n, missed)
<1>1. SameLinks(l) /\ l \in [Links -> LinkStates] /\ l[n].out = Tail(link[n].out) /\ \A k \in Links : k # n => l[k].out = link[k].out
  BY TakenLinks
<1> HIDE DEF l
<1>2. /\ b \in [Links -> LinkStates]
      /\ \A k \in Links :
           /\ b[k].in = l[k].in /\ b[k].out = l[k].out /\ b[k].heard = l[k].heard
           /\ b[k].bound <=> k = n
           /\ ~l[k].bound => b[k].code = l[k].code
           /\ b[k].up = (IF k # n /\ l[k].bound /\ l[k].up = "open" THEN "closing" ELSE l[k].up)
  BY <1>1, BoundLinks, SMTT(30)
<1> HIDE DEF b
<1>3. /\ d \in [Links -> LinkStates]
      /\ \A k \in Links :
           /\ d[k].code = b[k].code
           /\ d[k].out = b[k].out /\ d[k].heard = b[k].heard /\ d[k].bound = b[k].bound /\ d[k].up = b[k].up
           /\ k = n /\ b[k].up = "open" /\ b[k].heard => d[k].in = b[k].in \o missed
           /\ ~(k = n /\ b[k].up = "open" /\ b[k].heard) => d[k].in = b[k].in
  BY <1>2, DeliveredLinks
<1> HIDE DEF d
<1>4. h \in Hubs /\ h.epoch = hub.epoch /\ h.loop = hub.loop /\ h.last = hub.last /\ h.log = hub.log
      /\ h.owed = hub.owed /\ h.sink = n
  <2>1. n \in 0..MaxLinks
    BY DeviceAssumption DEF Links
  <2> QED BY <2>1 DEF DeviceTypes, Hubs
<1>5. Publishes(h, d, <<e>>)
  BY DEF l, b, d
<1> HIDE DEF h
<1>6. <<e>> \in Seq(StreamEvents) /\ Len(<<e>>) = 1
  BY OneEvent
<1>7. /\ hub' \in Hubs /\ hub'.epoch = hub.epoch /\ hub'.loop = hub.loop /\ hub'.last = hub.last + 1
      /\ hub'.log = Kept(hub.log \o <<e>>) /\ hub'.owed = hub.owed /\ hub'.sink = n
  <2> DEFINE evs == <<e>>
  <2>1. evs \in Seq(StreamEvents) /\ Len(evs) = 1 /\ Publishes(h, d, evs)
    BY <1>5, <1>6
  <2>2. hub'.log = Kept(hub.log \o evs) => hub'.log = Kept(hub.log \o <<e>>)
    OBVIOUS
  <2> HIDE DEF evs
  <2>3. /\ hub' \in Hubs /\ hub'.epoch = h.epoch /\ hub'.loop = h.loop /\ hub'.sink = h.sink
        /\ hub'.owed = h.owed
        /\ hub'.last = h.last + Len(evs) /\ hub'.log = Kept(h.log \o evs)
    BY <1>3, <1>4, <2>1, PublishedHub
  <2> QED BY <1>4, <2>1, <2>2, <2>3
<1>8. Texts(h, <<e>>) = Texts(hub, <<e>>)
  BY <1>4 DEF Texts
<1>9. /\ link' \in [Links -> LinkStates]
      /\ \A k \in Links :
           /\ link'[k].up = d[k].up /\ link'[k].bound = d[k].bound /\ link'[k].heard = d[k].heard
           /\ link'[k].out = d[k].out /\ link'[k].code = d[k].code
           /\ k = n /\ d[k].up = "open" /\ d[k].heard => link'[k].in = d[k].in \o Texts(hub, <<e>>)
           /\ ~(k = n /\ d[k].up = "open" /\ d[k].heard) => link'[k].in = d[k].in
  <2> DEFINE evs == <<e>>
  <2>1. evs \in Seq(StreamEvents) /\ Publishes(h, d, evs) /\ Texts(h, evs) = Texts(hub, <<e>>)
    BY <1>5, <1>6, <1>8
  <2> HIDE DEF evs
  <2>2. /\ link' \in [Links -> LinkStates]
        /\ \A k \in Links :
             /\ link'[k].up = d[k].up /\ link'[k].bound = d[k].bound /\ link'[k].heard = d[k].heard
             /\ link'[k].code = d[k].code /\ link'[k].out = d[k].out
             /\ k = h.sink /\ d[k].up = "open" /\ d[k].heard => link'[k].in = d[k].in \o Texts(h, evs)
             /\ ~(k = h.sink /\ d[k].up = "open" /\ d[k].heard) => link'[k].in = d[k].in
    BY <1>3, <1>4, <2>1, PublishedLink
  <2> QED BY <1>4, <2>1, <2>2
<1>10. ASSUME NEW k \in Links
       PROVE  /\ link'[k].heard = link[k].heard /\ (link'[k].bound <=> k = n)
              /\ link'[k].up = (IF k # n /\ link[k].bound /\ link[k].up = "open" THEN "closing" ELSE link[k].up)
              /\ k = n => link'[k].out = Tail(link[k].out)
              /\ k # n => link'[k].out = link[k].out
              /\ ~link[k].bound => link'[k].code = link[k].code
              /\ k = n /\ link[k].up = "open" /\ link[k].heard => link'[k].in = (link[k].in \o missed) \o Texts(hub, <<e>>)
              /\ ~(k = n /\ link[k].up = "open" /\ link[k].heard) => link'[k].in = link[k].in
  <2>1. /\ l[k].in = link[k].in /\ l[k].up = link[k].up /\ l[k].bound = link[k].bound /\ l[k].heard = link[k].heard
        /\ l[k].code = link[k].code
    BY <1>1 DEF SameLinks
  <2>2. /\ d[k].heard = link[k].heard /\ (d[k].bound <=> k = n)
        /\ d[k].up = (IF k # n /\ link[k].bound /\ link[k].up = "open" THEN "closing" ELSE link[k].up)
        /\ k = n => d[k].out = Tail(link[k].out)
        /\ k # n => d[k].out = link[k].out
        /\ ~link[k].bound => d[k].code = link[k].code
    BY <1>1, <1>2, <1>3, <2>1
  <2>3. /\ k = n /\ link[k].up = "open" /\ link[k].heard => d[k].in = link[k].in \o missed
        /\ ~(k = n /\ link[k].up = "open" /\ link[k].heard) => d[k].in = link[k].in
    <3>1. /\ k = n /\ b[k].up = "open" /\ b[k].heard => d[k].in = b[k].in \o missed
          /\ ~(k = n /\ b[k].up = "open" /\ b[k].heard) => d[k].in = b[k].in
      BY <1>3
    <3>2. b[k].in = link[k].in /\ b[k].heard = link[k].heard /\ (k = n => b[k].up = link[k].up)
      BY <1>2, <2>1
    <3> QED BY <3>1, <3>2
  <2>4. /\ link'[k].up = d[k].up /\ link'[k].bound = d[k].bound /\ link'[k].heard = d[k].heard
        /\ link'[k].out = d[k].out /\ link'[k].code = d[k].code
        /\ k = n /\ d[k].up = "open" /\ d[k].heard => link'[k].in = d[k].in \o Texts(hub, <<e>>)
        /\ ~(k = n /\ d[k].up = "open" /\ d[k].heard) => link'[k].in = d[k].in
    BY <1>9
  <2>5. /\ k = n /\ link[k].up = "open" /\ link[k].heard => link'[k].in = (link[k].in \o missed) \o Texts(hub, <<e>>)
        /\ ~(k = n /\ link[k].up = "open" /\ link[k].heard) => link'[k].in = link[k].in
    BY <2>2, <2>3, <2>4
  <2> QED BY <2>2, <2>4, <2>5
<1> QED BY <1>7, <1>9, <1>10 DEF Rebinds

\* With nothing missed there is nothing to deliver before the answer.
LEMMA NothingDelivered ==
  ASSUME NEW l \in [Links -> LinkStates], NEW n \in Links
  PROVE  Delivered(l, n, <<>>) = l
<1>1. l[n] \in LinkStates
  OBVIOUS
<1>2. l[n].in \o <<>> = l[n].in
  BY <1>1, ConcatEmptySeq DEF LinkStates
<1>3. [l EXCEPT ![n].in = l[n].in] = l
  BY <1>1 DEF LinkStates
<1> QED BY <1>2, <1>3 DEF Delivered

LEMMA SnapshotType ==
  ASSUME DeviceTypes, NEW to \in SyncIds
  PROVE  LET e == SnapshotEvent(to)
         IN e \in StreamEvents /\ e.kind = "snapshot" /\ Ext(e) = Len(history) /\ e.to = to
<1>1. Len(history) \in Nat /\ PendingEvents \in SUBSET Nat /\ ReadPosition(readTo) \in ReadBodies
  BY LenProperties, ReadPositionType DEF DeviceTypes, PendingEvents, Places
<1> DEFINE b == [shown |-> Len(history), pending |-> PendingEvents, read |-> ReadPosition(readTo)]
<1>2. b \in [shown : Nat, pending : SUBSET Nat, read : ReadBodies] /\ b.shown = Len(history)
  BY <1>1
<1>3. SnapshotEvent(to) = Ev("snapshot", to, b)
  BY DEF SnapshotEvent
<1> HIDE DEF b
<1>4. Ev("snapshot", to, b) \in [kind : {"snapshot"}, to : SyncIds, body : [shown : Nat, pending : SUBSET Nat, read : ReadBodies]]
  BY <1>2 DEF Ev
<1> QED BY <1>2, <1>3, <1>4 DEF StreamEvents, Ev, Ext

LEMMA BufferInStream == ASSUME StreamLeads PROVE Len(hub.log) <= hub.last
BY DEF StreamLeads, StreamOf

LEMMA SyncShape ==
  ASSUME DeviceTypes, StreamLeads, NEW n \in Links, link[n].out # <<>>, Head(link[n].out).kind = "sync",
         TakesSync(n, [link EXCEPT ![n].out = Tail(@)], Head(link[n].out)), client' = client
  PROVE  \E e \in StreamEvents, missed \in Seq(SentEvents) :
           Rebinds(n, e, missed) /\ SyncSays(Head(link[n].out), e, missed)
           /\ e.to = Head(link[n].out).id /\ Ext(e) <= Len(history) /\ (e.kind = "unavailable" <=> ~Able)
           /\ e.kind \notin {"message", "completed", "read"}
           /\ (e.kind = "snapshot" => Able /\ Ext(e) = Len(history))
<1> DEFINE m == Head(link[n].out)
           l == [link EXCEPT ![n].out = Tail(@)]
           h == [hub EXCEPT !.sink = n]
           b == Bound(l, n)
<1>1. m.id \in SyncIds /\ m.body \in Positions
  BY HeadCommand
<1>2. /\ \/ /\ ~Able
            /\ Publishes(h, b, <<Ev("unavailable", m.id, 0)>>)
         \/ /\ Able
            /\ Replayable(h, m.body)
            /\ Publishes(h, Delivered(b, n, Missed(h, m.body)), <<Ev("accepted", m.id, 0)>>)
         \/ /\ Able
            /\ ~Replayable(h, m.body)
            /\ Publishes(h, b, <<SnapshotEvent(m.id)>>)
      /\ history' = history /\ over' = over /\ readTo' = readTo
  BY DEF TakesSync
<1>3. /\ h.epoch = hub.epoch /\ h.last = hub.last /\ h.log = hub.log /\ hub \in Hubs
      /\ Len(hub.log) <= hub.last /\ Len(history) \in Nat
  BY BufferInStream, LenProperties DEF DeviceTypes, Hubs
<1>4. Delivered(b, n, <<>>) = b
  <2>1. l \in [Links -> LinkStates]
    BY TakenLinks
  <2>2. b \in [Links -> LinkStates]
    BY <2>1, BoundLinks
  <2> QED BY <2>2, NothingDelivered
<1>5. Replayable(h, m.body) <=> Replayable(hub, m.body)
  BY <1>3 DEF Replayable
<1>6. ASSUME NEW e \in StreamEvents, NEW missed \in Seq(SentEvents), Publishes(h, Delivered(b, n, missed), <<e>>)
      PROVE  Rebinds(n, e, missed)
  BY <1>2, <1>6, PublishedTo
<1>7. <<>> \in Seq(SentEvents)
  OBVIOUS
<1> DEFINE Goal == \E e \in StreamEvents, missed \in Seq(SentEvents) :
             Rebinds(n, e, missed) /\ SyncSays(m, e, missed)
             /\ e.to = m.id /\ Ext(e) <= Len(history) /\ (e.kind = "unavailable" <=> ~Able)
             /\ e.kind \notin {"message", "completed", "read"}
             /\ (e.kind = "snapshot" => Able /\ Ext(e) = Len(history))
<1>11. ASSUME NEW e \in StreamEvents, NEW missed \in Seq(SentEvents), Rebinds(n, e, missed), SyncSays(m, e, missed),
              e.to = m.id, Ext(e) <= Len(history), e.kind = "unavailable" <=> ~Able,
              e.kind \notin {"message", "completed", "read"}, e.kind = "snapshot" => Able /\ Ext(e) = Len(history)
       PROVE  Goal
  <2> HIDE DEF m
  <2> QED BY <1>11
<1> SUFFICES Goal
  OBVIOUS
<1> HIDE DEF Goal
<1>8. CASE ~Able /\ Publishes(h, b, <<Ev("unavailable", m.id, 0)>>)
  <2> DEFINE e == Ev("unavailable", m.id, 0)
             missed == <<>>
  <2>1. e \in StreamEvents /\ e.to = m.id /\ e.kind = "unavailable" /\ Ext(e) = 0
    <3> HIDE DEF m
    <3>1. e \in [kind : {"unavailable"}, to : SyncIds \cup SendIds \cup ReadIds, body : {0}]
      BY <1>1 DEF Ev
    <3> QED BY <3>1 DEF StreamEvents, Ev, Ext
  <2>2. SyncSays(m, e, missed)
    BY <1>8 DEF SyncSays
  <2>6. missed \in Seq(SentEvents)
    BY <1>7
  <2>3. Publishes(h, Delivered(b, n, missed), <<e>>)
    BY <1>4, <1>8
  <2> HIDE DEF e, missed
  <2>4. Rebinds(n, e, missed)
    BY <1>6, <2>1, <2>3, <2>6
  <2>5. e.kind = "unavailable" <=> ~Able
    BY <1>8, <2>1
  <2> HIDE DEF m
  <2> QED BY <1>3, <1>11, <2>1, <2>2, <2>4, <2>5, <2>6
<1>9. CASE Able /\ Replayable(h, m.body) /\ Publishes(h, Delivered(b, n, Missed(h, m.body)), <<Ev("accepted", m.id, 0)>>)
  <2> DEFINE e == Ev("accepted", m.id, 0)
             missed == Missed(hub, m.body)
  <2>1. e \in StreamEvents /\ e.to = m.id /\ e.kind = "accepted" /\ Ext(e) = 0
    <3> HIDE DEF m
    <3>1. e \in [kind : {"accepted"}, to : SyncIds, body : {0}]
      BY <1>1 DEF Ev
    <3> QED BY <3>1 DEF StreamEvents, Ev, Ext
  <2>2. missed = Missed(h, m.body)
    <3>1. Texts([h EXCEPT !.last = @ - Len(h.log)], h.log) = Texts([hub EXCEPT !.last = @ - Len(hub.log)], hub.log)
      BY <1>3 DEF Texts, Hubs
    <3> QED BY <1>3, <3>1 DEF Missed
  <2>3. SyncSays(m, e, missed)
    BY <1>5, <1>9 DEF SyncSays
  <2>4. missed \in Seq(SentEvents)
    <3>1. /\ Missed(hub, m.body) = Texts(AsOf(hub, m.body), Behind(hub, m.body)) /\ AsOf(hub, m.body) \in Hubs
          /\ Behind(hub, m.body) \in Seq(StreamEvents)
      BY <1>1, <1>3, <1>5, <1>9, MissedTexts
    <3>2. AsOf(hub, m.body).epoch \in Nat /\ AsOf(hub, m.body).last \in Nat
      BY <3>1 DEF Hubs
    <3> QED BY <3>1, <3>2, TextsOfEvents
  <2>5. Publishes(h, Delivered(b, n, missed), <<e>>)
    BY <1>9, <2>2
  <2> HIDE DEF e, missed
  <2>6. Rebinds(n, e, missed)
    BY <1>6, <2>1, <2>4, <2>5
  <2>7. e.kind = "unavailable" <=> ~Able
    BY <1>9, <2>1
  <2> HIDE DEF m
  <2> QED BY <1>3, <1>11, <2>1, <2>3, <2>4, <2>6, <2>7
<1>10. CASE Able /\ ~Replayable(h, m.body) /\ Publishes(h, b, <<SnapshotEvent(m.id)>>)
  <2> DEFINE e == SnapshotEvent(m.id)
             missed == <<>>
  <2>1. e \in StreamEvents /\ e.to = m.id /\ e.kind = "snapshot" /\ Ext(e) = Len(history)
    BY <1>1, SnapshotType
  <2>2. SyncSays(m, e, missed)
    BY <1>5, <1>10 DEF SyncSays
  <2>6. missed \in Seq(SentEvents)
    BY <1>7
  <2>3. Publishes(h, Delivered(b, n, missed), <<e>>)
    BY <1>4, <1>10
  <2> HIDE DEF e, missed
  <2>4. Rebinds(n, e, missed)
    BY <1>6, <2>1, <2>3, <2>6
  <2>5. (e.kind = "unavailable" <=> ~Able) /\ Able
    BY <1>10, <2>1
  <2> HIDE DEF m
  <2> QED BY <1>3, <1>11, <2>1, <2>2, <2>4, <2>5, <2>6
<1> QED BY <1>2, <1>5, <1>8, <1>9, <1>10

LEMMA ReboundLinks ==
  ASSUME DeviceTypes, LinksInTurn, NEW n \in Links, link[n].up \in {"open", "closing"},
         NEW e \in StreamEvents, NEW missed \in Seq(SentEvents), Rebinds(n, e, missed)
  PROVE  LinksInTurn'
<1>1. /\ client' = client /\ hub'.sink = n /\ (Active' <=> Active) /\ hub'.loop = hub.loop
      /\ link' \in [Links -> LinkStates] /\ link \in [Links -> LinkStates]
  BY DEF Rebinds, Active, DeviceTypes
<1>2. \A k \in Links :
        /\ link'[k].heard = link[k].heard /\ (link'[k].bound <=> k = n)
        /\ link'[k].up = (IF k # n /\ link[k].bound /\ link[k].up = "open" THEN "closing" ELSE link[k].up)
        /\ k # n => link'[k].out = link[k].out /\ link'[k].in = link[k].in
  BY DEF Rebinds
<1>3. ASSUME NEW k \in Links, k > client.conn
      PROVE  link'[k] = [up |-> "unused", bound |-> FALSE, heard |-> TRUE, code |-> "none", out |-> <<>>, in |-> <<>>]
  <2>1. link[k] = [up |-> "unused", bound |-> FALSE, heard |-> TRUE, code |-> "none", out |-> <<>>, in |-> <<>>]
    BY <1>3 DEF LinksInTurn
  <2>2. k # n /\ ~link[k].bound /\ link[k].up = "unused"
    BY <2>1
  <2>3. /\ link'[k].up = link[k].up /\ link'[k].bound = link[k].bound /\ link'[k].heard = link[k].heard
        /\ link'[k].out = link[k].out /\ link'[k].in = link[k].in
    <3>1. link[k].bound = FALSE /\ link'[k].bound \in BOOLEAN
      BY <1>1, <2>1 DEF LinkStates
    <3> QED BY <1>2, <2>2, <3>1
  <2>4. link'[k].code = link[k].code
    BY <2>2 DEF Rebinds
  <2> QED BY <1>1, <2>1, <2>3, <2>4, SameRecord
<1>4. ASSUME NEW k \in Links, ~link'[k].bound, link'[k].up = "open" PROVE link'[k].in = <<>>
  <2>1. k # n /\ link[k].up = "open" /\ ~link[k].bound
    BY <1>2, <1>4
  <2> QED BY <1>2, <2>1 DEF LinksInTurn
<1>5. ASSUME Active PROVE client.conn # 0 /\ link'[client.conn].heard /\ link'[client.conn].up # "unused"
  <2>1. client.conn \in Links
    BY <1>5 DEF LinksInTurn, DeviceTypes, Clients, Links
  <2> QED BY <1>2, <1>5, <2>1 DEF LinksInTurn, Up
<1>6. ASSUME client.phase = "ready", link'[client.conn].up = "open" PROVE Able' /\ link'[client.conn].bound
  <2>1. client.conn \in Links
    BY <1>6 DEF LinksInTurn, DeviceTypes, Clients, Links, Active
  <2>2. link[client.conn].up = "open" /\ (client.conn # n => ~link[client.conn].bound)
    BY <1>2, <1>6, <2>1
  <2>3. Able /\ link[client.conn].bound
    BY <1>6, <2>2 DEF LinksInTurn, Up
  <2> QED BY <1>1, <1>2, <2>1, <2>2, <2>3 DEF Able
<1> QED BY <1>1, <1>2, <1>3, <1>4, <1>5, <1>6 DEF LinksInTurn, Up

\* What is on the device's connection once more is sent on it.
Heard(in, e) ==
  /\ in \in Seq(SentEvents) /\ Channel(in, hub', "open", Len(history))
  /\ Refusals(in) \/ Chained(in, client.at)
  /\ Able => Reached(in, client.at) = <<hub'.epoch, hub'.last>>
  /\ Coherent(Bodies(in), 0, Len(client.shown))
  /\ Able => Complete(Bodies(in), 0, Len(client.shown), Len(history), hub.owed)
  /\ \A i \in DOMAIN in : Comes(in[i], <<e>>)

LEMMA ComesJoined ==
  ASSUME NEW in \in Seq(SentEvents), hub \in Hubs, NEW evs \in Seq(StreamEvents),
         \A i \in DOMAIN in : Comes(in[i], evs)
  PROVE  \A i \in DOMAIN (in \o Texts(hub, evs)) : Comes((in \o Texts(hub, evs))[i], evs)
<1> DEFINE new == Texts(hub, evs)
           both == in \o new
<1>1. /\ new \in Seq(SentEvents) /\ Len(new) = Len(evs) /\ Len(evs) \in Nat
      /\ \A i \in 1..Len(evs) : new[i] = [at |-> <<hub.epoch, hub.last + i>>, ev |-> evs[i]]
  <2>1. hub.epoch \in Nat /\ hub.last \in Nat
    BY DEF Hubs
  <2> QED BY <2>1, TextsOfEvents, LenProperties
<1> HIDE DEF new
<1>2. both \in Seq(SentEvents) /\ Len(in) \in Nat /\ Len(both) = Len(in) + Len(evs)
  <2>1. both \in Seq(SentEvents) /\ Len(in) \in Nat
    BY <1>1, Joined
  <2>2. Len(both) = Len(in) + Len(new)
    BY <1>1, Joined
  <2> QED BY <1>1, <2>1, <2>2
<1>3. \A i \in 1..Len(in) : both[i] = in[i]
  BY <1>1, Joined
<1>4. \A i \in (Len(in) + 1)..(Len(in) + Len(evs)) : both[i] = new[i - Len(in)]
  BY <1>1, Joined
<1>5. DOMAIN both = 1..(Len(in) + Len(evs)) /\ DOMAIN in = 1..Len(in)
  BY <1>2, LenProperties
<1> HIDE DEF both
<1>6. ASSUME NEW i \in DOMAIN both PROVE Comes(both[i], evs)
  <2>1. CASE i <= Len(in)
    <3>1. i \in DOMAIN in /\ both[i] = in[i]
      BY <1>2, <1>3, <1>5, <2>1
    <3> QED BY <3>1
  <2>2. CASE ~(i <= Len(in))
    <3>1. i - Len(in) \in 1..Len(evs) /\ i \in (Len(in) + 1)..(Len(in) + Len(evs))
      BY <1>1, <1>2, <1>5, <2>2
    <3>2. both[i] = [at |-> <<hub.epoch, hub.last + (i - Len(in))>>, ev |-> evs[i - Len(in)]]
      BY <1>1, <1>4, <3>1
    <3> QED BY <3>1, <3>2 DEF Comes
  <2> QED BY <2>1, <2>2
<1> QED BY <1>6 DEF both, new

\* An answer is heard after what is on its way already.
LEMMA AnswerHeard ==
  ASSUME DeviceTypes, Following, ShowsFirst, Active, NEW in \in Seq(SentEvents), NEW e \in StreamEvents,
         hub' \in Hubs, hub'.epoch = hub.epoch, hub'.loop = hub.loop, hub'.last = hub.last + 1,
         Channel(in, hub, "open", Len(history)), Refusals(in) \/ Chained(in, client.at),
         Coherent(Bodies(in), 0, Len(client.shown)),
         \A i \in DOMAIN in : Comes(in[i], <<e>>),
         e.kind \notin {"message", "completed", "read"}, e.kind = "unavailable" <=> ~Able, Ext(e) <= Len(history),
         \/ e.kind = "snapshot" /\ Ext(e) = Len(history)
         \/ e.kind = "unavailable"
         \/ /\ e.kind = "accepted" /\ Reached(in, client.at) = <<hub.epoch, hub.last>>
            /\ Complete(Bodies(in), 0, Len(client.shown), Len(history), hub.owed)
  PROVE  Heard(in \o Texts(hub, <<e>>), e)
<1> DEFINE evs == <<e>>
           H == Len(history)
           k == Len(client.shown)
           both == in \o Texts(hub, evs)
<1>1. evs \in Seq(StreamEvents) /\ Len(evs) = 1 /\ evs[1] = e /\ \A i \in 1..Len(evs) : i = 1 /\ evs[i] = e
  BY OneEvent
<1>2. hub \in Hubs /\ H \in Nat /\ k \in Nat /\ k <= H /\ H <= H
  BY LenProperties DEF DeviceTypes, Clients, ShowsFirst
<1>3. evs # <<>>
  BY <1>1
<1> HIDE DEF evs
<1>4. /\ Channel(both, hub, "open", H)
      /\ Refusals(both) \/ Chained(both, client.at)
      /\ Reached(both, client.at) = <<hub.epoch, hub.last + Len(evs)>>
  <2>1. \A i \in 1..Len(evs) : (evs[i].kind = "unavailable" <=> hub.loop # "able") /\ Ext(evs[i]) <= H
    BY <1>1 DEF Able
  <2>2. hub.loop = "able" /\ evs # <<>> => Reached(in, client.at) = <<hub.epoch, hub.last>> \/ evs[1].kind = "snapshot"
    BY <1>1 DEF Able
  <2>3. Channel(in, hub, "open", H) /\ (Refusals(in) \/ Chained(in, client.at))
    OBVIOUS
  <2> HIDE DEF H
  <2>4. /\ Channel(both, hub, "open", H)
        /\ Refusals(both) \/ Chained(both, client.at)
        /\ evs # <<>> \/ Reached(in, client.at) = <<hub.epoch, hub.last>>
              => Reached(both, client.at) = <<hub.epoch, hub.last + Len(evs)>>
    BY <1>1, <1>2, <2>1, <2>2, <2>3, ChainGrows, SMTT(90)
  <2> QED BY <1>3, <2>4
<1>5. both \in Seq(SentEvents)
  <2>1. hub.epoch \in Nat /\ hub.last \in Nat
    BY <1>2 DEF Hubs
  <2>2. Texts(hub, evs) \in Seq(SentEvents)
    BY <1>1, <2>1, TextsOfEvents
  <2> QED BY <2>2, Joined
<1>6. \A i \in DOMAIN both : Comes(both[i], evs)
  <2>1. \A i \in DOMAIN in : Comes(in[i], evs)
    BY DEF evs
  <2> QED BY <1>1, <1>2, <2>1, ComesJoined
<1>7. Bodies(both) = Bodies(in) \o evs
  BY <1>1, <1>2, BodiesOfSent
<1>8. /\ Bodies(in) \in Seq(StreamEvents) /\ 0 <= Len(Bodies(in)) /\ 0 \in Nat
      /\ \A t \in 1..Len(Bodies(in)) : Ext(Bodies(in)[t]) <= H
  <2>1. Bodies(in) \in Seq(StreamEvents) /\ 0 <= Len(Bodies(in))
    BY BodiesOfTexts
  <2> QED BY <2>1, ChannelExtents
<1>9. Coherent(Bodies(both), 0, k) /\ (Able => Complete(Bodies(both), 0, k, H, hub.owed))
  <2>1. CASE e.kind = "snapshot"
    <3>1. Leads(Bodies(in) \o <<e>>, 0, k, H, hub.owed)
      <4>1. Ext(e) = H
        BY <2>1 DEF H
      <4> HIDE DEF H, k
      <4> QED BY <1>2, <1>8, <2>1, <4>1, SnapshotLeads DEF k
    <3> QED BY <1>7, <3>1 DEF Leads, evs
  <2>2. CASE e.kind = "unavailable"
    <3>1. ~Able
      BY <2>2
    <3>2. Refusals(both)
      <4>1. ASSUME NEW i \in DOMAIN both PROVE both[i].ev.kind = "unavailable"
        BY <1>4, <3>1 DEF Channel, Able
      <4> QED BY <4>1 DEF Refusals
    <3> QED BY <1>5, <3>1, <3>2, RefusalsCohere
  <2>3. CASE e.kind = "accepted"
    <3>1. Leads(Bodies(in), 0, k, H, hub.owed)
      BY <2>3 DEF Leads
    <3>2. Fits(evs, H, hub.owed, H, hub.owed)
      <4>1. \A i \in 1..Len(evs) : evs[i].kind \notin {"message", "snapshot"}
        BY <1>1, <2>3
      <4>2. \A q \in 1..H : (q <= H /\ ~Owes(hub.owed, q)) \/ Owes(hub.owed, q)
        BY <1>2
      <4> HIDE DEF H
      <4> QED BY <1>1, <1>2, <4>1, <4>2, QuietFits
    <3>3. Leads(Bodies(in) \o evs, 0, k, H, hub.owed)
      <4> HIDE DEF H, k
      <4> QED BY <1>1, <1>2, <1>8, <3>1, <3>2, LeadsPublished
    <3> QED BY <1>7, <3>3 DEF Leads
  <2> QED BY <2>1, <2>2, <2>3
<1>10. Channel(both, hub', "open", H)
  BY <1>4 DEF Channel
<1>11. Reached(both, client.at) = <<hub'.epoch, hub'.last>>
  BY <1>1, <1>4
<1> QED BY <1>4, <1>5, <1>6, <1>9, <1>10, <1>11 DEF Heard, evs

\* What the device missed leads on from where it was.
LEMMA MissedHeard ==
  ASSUME DeviceTypes, Following, ShowsFirst, StreamLeads, Active, Able, Replayable(hub, client.at),
         NEW e
  PROVE  LET in == Missed(hub, client.at)
         IN /\ in \in Seq(SentEvents) /\ Channel(in, hub, "open", Len(history))
            /\ Refusals(in) \/ Chained(in, client.at)
            /\ Reached(in, client.at) = <<hub.epoch, hub.last>>
            /\ Coherent(Bodies(in), 0, Len(client.shown))
            /\ Complete(Bodies(in), 0, Len(client.shown), Len(history), hub.owed)
            /\ \A i \in DOMAIN in : Comes(in[i], <<e>>)
<1> DEFINE at == client.at
           in == Missed(hub, at)
           h == AsOf(hub, at)
           evs == Behind(hub, at)
           d == hub.last - at[2]
           H == Len(history)
           k == Len(client.shown)
<1>1. /\ hub \in Hubs /\ at \in Positions /\ H \in Nat /\ k \in Nat /\ hub.last \in Nat /\ Len(hub.log) \in Nat
      /\ at[2] \in Nat /\ at = <<at[1], at[2]>> /\ at[1] = hub.epoch /\ at[2] <= hub.last /\ d <= Len(hub.log)
  BY LenProperties, SMTT(30) DEF DeviceTypes, Clients, Hubs, Positions, Replayable
<1>2. PICK full \in Seq(StreamEvents) : StreamOf(full)
  BY DEF StreamLeads
<1>3. /\ Len(full) = hub.last /\ Len(hub.log) <= hub.last
      /\ \A i \in 1..Len(hub.log) : hub.log[i] = full[hub.last - Len(hub.log) + i]
      /\ \A t \in 1..hub.last : Ext(full[t]) <= H /\ full[t].kind # "unavailable"
      /\ Leads(full, at[2], k, H, hub.owed)
  BY <1>1, <1>2 DEF StreamOf
<1>4. /\ evs \in Seq(StreamEvents) /\ Len(evs) = d
      /\ \A i \in 1..d : evs[i] = hub.log[Len(hub.log) - d + i]
      /\ in = Texts(h, evs)
      /\ h \in Hubs /\ h.last = at[2] /\ h.epoch = hub.epoch /\ h.loop = hub.loop
  BY <1>1, <1>3, MissedTexts
<1> HIDE DEF h, evs, in
<1>5. \A i \in 1..d : /\ evs[i] = full[at[2] + i] /\ at[2] + i \in 1..hub.last
                      /\ Len(hub.log) - d + i \in 1..Len(hub.log)
                      /\ hub.last - Len(hub.log) + (Len(hub.log) - d + i) = at[2] + i
  <2> SUFFICES ASSUME NEW i \in 1..d
               PROVE  /\ evs[i] = full[at[2] + i] /\ at[2] + i \in 1..hub.last
                      /\ Len(hub.log) - d + i \in 1..Len(hub.log)
                      /\ hub.last - Len(hub.log) + (Len(hub.log) - d + i) = at[2] + i
    OBVIOUS
  <2>1. \A x, y, z, j \in Nat : y - z <= x /\ z <= y /\ x <= y /\ j \in 1..(y - z) =>
          /\ z + j \in 1..y /\ x - (y - z) + j \in 1..x /\ y - x + (x - (y - z) + j) = z + j
    OBVIOUS
  <2>2. i \in Nat
    BY <1>1
  <2>3. /\ at[2] + i \in 1..hub.last /\ Len(hub.log) - d + i \in 1..Len(hub.log)
        /\ hub.last - Len(hub.log) + (Len(hub.log) - d + i) = at[2] + i
    BY <1>1, <1>3, <2>1, <2>2, SMTT(30)
  <2>4. hub.log[Len(hub.log) - d + i] = full[hub.last - Len(hub.log) + (Len(hub.log) - d + i)]
    BY <1>3, <2>3
  <2> QED BY <1>4, <2>3, <2>4
<1>6. d \in Nat /\ Len(evs) \in Nat
  BY <1>1, <1>4
<1>7. /\ Channel(in, h, "open", H) /\ (Refusals(in) \/ Chained(in, at))
      /\ Reached(in, at) = <<h.epoch, h.last + Len(evs)>> /\ in \in Seq(SentEvents)
  <2> DEFINE none == <<>>
  <2>1. /\ none \in Seq(SentEvents) /\ none \o Texts(h, evs) = in /\ Channel(none, h, "open", H)
        /\ Refusals(none) /\ Reached(none, at) = at
    <3>1. Texts(h, evs) \in Seq(SentEvents)
      BY <1>4, TextsOfEvents DEF Hubs
    <3> QED BY <1>4, <3>1, ConcatEmptySeq DEF Channel, Refusals, Reached
  <2>2. \A i \in 1..Len(evs) : (evs[i].kind = "unavailable" <=> h.loop # "able") /\ Ext(evs[i]) <= H
    <3> SUFFICES ASSUME NEW i \in 1..d PROVE (evs[i].kind = "unavailable" <=> h.loop # "able") /\ Ext(evs[i]) <= H
      BY <1>4
    <3>1. evs[i] = full[at[2] + i] /\ at[2] + i \in 1..hub.last
      BY <1>5
    <3>2. Ext(full[at[2] + i]) <= H /\ full[at[2] + i].kind # "unavailable"
      BY <1>3, <3>1
    <3> QED BY <1>4, <3>1, <3>2 DEF Able
  <2>3. Reached(none, at) = <<h.epoch, h.last>>
    <3>1. at = <<at[1], at[2]>> /\ at[1] = h.epoch /\ at[2] = h.last /\ Reached(none, at) = at
      BY <1>1, <1>4, <2>1
    <3> HIDE DEF at
    <3> QED BY <3>1
  <2>6. H \in Nat /\ H <= H
    BY <1>1
  <2> HIDE DEF none, H, at
  <2>4. /\ Channel(none \o Texts(h, evs), h, "open", H)
        /\ Refusals(none \o Texts(h, evs)) \/ Chained(none \o Texts(h, evs), at)
        /\ evs # <<>> \/ Reached(none, at) = <<h.epoch, h.last>>
              => Reached(none \o Texts(h, evs), at) = <<h.epoch, h.last + Len(evs)>>
    <3>1. none \in Seq(SentEvents) /\ evs \in Seq(StreamEvents) /\ h \in Hubs /\ Channel(none, h, "open", H)
      BY <1>4, <2>1
    <3>2. Refusals(none) \/ Chained(none, at)
      BY <2>1
    <3>3. h.loop = "able" /\ evs # <<>> => Reached(none, at) = <<h.epoch, h.last>> \/ evs[1].kind = "snapshot"
      BY <2>3
    <3> QED BY <2>2, <2>6, <3>1, <3>2, <3>3, ChainGrows
  <2>5. in \in Seq(SentEvents)
    BY <1>4, TextsOfEvents DEF Hubs
  <2> QED BY <2>1, <2>3, <2>4, <2>5
<1>8. Channel(in, hub, "open", H)
  BY <1>4, <1>7 DEF Channel
<1>9. Reached(in, at) = <<hub.epoch, hub.last>>
  <2>1. h.last + Len(evs) = hub.last
    BY <1>1, <1>4
  <2> QED BY <1>4, <1>7, <2>1
<1>10. Bodies(in) = evs
  BY <1>4, BodiesOfNew
<1>11. Leads(evs, 0, k, H, hub.owed)
  <2>1. Len(evs) = Len(full) - at[2] /\ at[2] <= Len(full) /\ \A i \in 1..Len(evs) : evs[i] = full[at[2] + i]
    BY <1>1, <1>3, <1>4, <1>5
  <2> HIDE DEF H, k, at
  <2> QED BY <1>1, <1>3, <1>4, <2>1, LeadsFromEnd
<1>12. ASSUME NEW i \in DOMAIN in PROVE Comes(in[i], <<e>>)
  <2>1. DOMAIN in = 1..Len(in) /\ Len(in) = d /\ \A j \in 1..d : in[j] = [at |-> <<h.epoch, h.last + j>>, ev |-> evs[j]]
    <3>1. h.epoch \in Nat /\ h.last \in Nat
      BY <1>4 DEF Hubs
    <3>2. Len(in) = d /\ \A j \in 1..d : in[j] = [at |-> <<h.epoch, h.last + j>>, ev |-> evs[j]]
      BY <1>4, <3>1, TextsOfEvents
    <3>3. DOMAIN in = 1..Len(in)
      BY <1>7, LenProperties
    <3> QED BY <3>2, <3>3
  <2>2. in[i] = [at |-> <<hub.epoch, at[2] + i>>, ev |-> evs[i]] /\ i \in 1..d
    BY <1>4, <1>12, <2>1
  <2>3. evs[i] = hub.log[Len(hub.log) - d + i] /\ at[2] < at[2] + i
    BY <1>1, <1>4, <1>6, <2>2, SMTT(30)
  <2> DEFINE j == Len(hub.log) - d + i
  <2>4. j \in 1..Len(hub.log) /\ hub.last - Len(hub.log) + j = at[2] + i
    BY <1>5, <2>2
  <2>5. in[i] = [at |-> <<hub.epoch, hub.last - Len(hub.log) + j>>, ev |-> hub.log[j]] /\ client.at[1] = hub.epoch
        /\ client.at[2] < hub.last - Len(hub.log) + j
    BY <1>1, <2>2, <2>3, <2>4
  <2> HIDE DEF j
  <2> QED BY <2>4, <2>5 DEF Comes
<1> QED BY <1>7, <1>8, <1>9, <1>10, <1>11, <1>12 DEF Leads, in

\* What a rebinding sends the device.
LEMMA ReboundHeard ==
  ASSUME DeviceTypes, LinksInTurn, Following, ShowsFirst, StreamLeads, Active,
         NEW n \in Links, n = client.conn, Out # <<>>, Head(Out).kind = "sync", Up = "open",
         NEW e \in StreamEvents, NEW missed \in Seq(SentEvents), Rebinds(n, e, missed), SyncSays(Head(Out), e, missed),
         Ext(e) <= Len(history), e.kind = "unavailable" <=> ~Able,
         e.kind \notin {"message", "completed", "read"}, e.kind = "snapshot" => Able /\ Ext(e) = Len(history)
  PROVE  Heard(In', e)
<1> DEFINE m == Head(Out)
<1>1. /\ In \in Seq(SentEvents) /\ Out \in Seq(Commands) /\ link[n] \in LinkStates
      /\ Channel(In, hub, "open", Len(history))
      /\ Refusals(In) \/ Chained(In, client.at)
      /\ Coherent(Bodies(In), 0, Len(client.shown))
  BY FollowingChannel
<1>2. link[n].heard
  BY DEF LinksInTurn
<1>3. In' = (In \o missed) \o Texts(hub, <<e>>)
  <2>1. In' = link'[n].in /\ In = link[n].in /\ link[n].up = "open"
    BY DEF Rebinds, In, Up
  <2> QED BY <1>2, <2>1 DEF Rebinds
<1>4. hub' \in Hubs /\ hub'.epoch = hub.epoch /\ hub'.loop = hub.loop /\ hub'.last = hub.last + 1
  BY DEF Rebinds
<1>5. ASSUME missed = <<>> PROVE In' = In \o Texts(hub, <<e>>)
  BY <1>1, <1>3, <1>5, ConcatEmptySeq
<1>6. \A i \in DOMAIN In : Comes(In[i], <<e>>)
  BY DEF Comes
<1>7. CASE missed = <<>> /\ (e.kind = "unavailable" \/ (e.kind = "snapshot" /\ Ext(e) = Len(history)))
  <2>1. Heard(In \o Texts(hub, <<e>>), e)
    BY <1>1, <1>4, <1>6, <1>7, AnswerHeard
  <2> QED BY <1>5, <1>7, <2>1
<1>8. CASE Able /\ Replayable(hub, m.body) /\ missed = Missed(hub, m.body) /\ e = Ev("accepted", m.id, 0)
  <2>1. Out[1] = m /\ 1 \in DOMAIN Out
    <3>1. Len(Out) \in Nat /\ Len(Out) # 0 /\ DOMAIN Out = 1..Len(Out) /\ Head(Out) = Out[1]
      BY <1>1, LenProperties, EmptySeq, HeadTailProperties
    <3> QED BY <3>1
  <2>2. m.body # Nowhere
    <3>1. hub.epoch # 0 /\ m.body[1] = hub.epoch
      BY <1>8 DEF DeviceTypes, Hubs, Replayable
    <3>2. Nowhere[1] = 0
      BY DEF Nowhere
    <3> QED BY <3>1, <3>2
  <2>3. m.body = client.at /\ In = <<>>
    BY <2>1, <2>2 DEF Following
  <2>4. e.kind = "accepted"
    BY <1>8 DEF Ev
  <2>5. In' = missed \o Texts(hub, <<e>>)
    BY <1>3, <2>3, ConcatEmptySeq
  <2>6. /\ missed \in Seq(SentEvents) /\ Channel(missed, hub, "open", Len(history))
        /\ Refusals(missed) \/ Chained(missed, client.at)
        /\ Reached(missed, client.at) = <<hub.epoch, hub.last>>
        /\ Coherent(Bodies(missed), 0, Len(client.shown))
        /\ Complete(Bodies(missed), 0, Len(client.shown), Len(history), hub.owed)
        /\ \A i \in DOMAIN missed : Comes(missed[i], <<e>>)
    <3>1. missed = Missed(hub, client.at) /\ Able /\ Replayable(hub, client.at)
      BY <1>8, <2>3
    <3>2. LET in == Missed(hub, client.at)
          IN /\ in \in Seq(SentEvents) /\ Channel(in, hub, "open", Len(history))
             /\ Refusals(in) \/ Chained(in, client.at)
             /\ Reached(in, client.at) = <<hub.epoch, hub.last>>
             /\ Coherent(Bodies(in), 0, Len(client.shown))
             /\ Complete(Bodies(in), 0, Len(client.shown), Len(history), hub.owed)
             /\ \A i \in DOMAIN in : Comes(in[i], <<e>>)
      BY <3>1, MissedHeard
    <3> QED BY <3>1, <3>2
  <2>7. Heard(missed \o Texts(hub, <<e>>), e)
    BY <1>4, <2>4, <2>6, AnswerHeard
  <2> QED BY <2>5, <2>7
<1>9. CASE ~Able /\ missed = <<>> /\ e = Ev("unavailable", m.id, 0)
  BY <1>7, <1>9 DEF Ev
<1>10. CASE Able /\ ~Replayable(hub, m.body) /\ missed = <<>> /\ e = SnapshotEvent(m.id)
  <2>1. e.kind = "snapshot"
    BY <1>10 DEF SnapshotEvent, Ev
  <2> QED BY <1>7, <1>10, <2>1
<1> QED BY <1>8, <1>9, <1>10 DEF SyncSays

LEMMA ReboundKeeps ==
  ASSUME DeviceIInv, NEW n \in Links, link[n].out # <<>>, Head(link[n].out).kind = "sync",
         link[n].up \in {"open", "closing"},
         NEW e \in StreamEvents, NEW missed \in Seq(SentEvents), Rebinds(n, e, missed),
         SyncSays(Head(link[n].out), e, missed),
         Ext(e) <= Len(history), e.kind = "unavailable" <=> ~Able,
         e.kind \notin {"message", "completed", "read"}, e.kind = "snapshot" => Able /\ Ext(e) = Len(history)
  PROVE  Following' /\ StreamLeads'
<1>0. DeviceTypes /\ LinksInTurn /\ Following /\ ShowsFirst /\ StreamLeads
  BY DEF DeviceIInv
<1> DEFINE c == client.conn
           H == Len(history)
           k == Len(client.shown)
<1>1. /\ client' = client /\ history' = history /\ hub' \in Hubs /\ hub'.epoch = hub.epoch /\ hub'.loop = hub.loop
      /\ hub'.last = hub.last + 1 /\ hub'.log = Kept(hub.log \o <<e>>) /\ hub'.owed = hub.owed
      /\ (Active' <=> Active) /\ (Able' <=> Able)
  BY DEF Rebinds, Active, Able
<1>2. H \in Nat /\ k \in Nat /\ Len(history') = H
  BY <1>0, <1>1, LenProperties DEF DeviceTypes, Clients
<1>3. ASSUME Active
      PROVE  /\ Following' /\ In' \in Seq(SentEvents)
             /\ \A i \in DOMAIN In' : Comes(In'[i], <<e>>)
  <2>1. /\ c \in Links /\ In \in Seq(SentEvents) /\ Out \in Seq(Commands)
        /\ Channel(In, hub, Up, H)
        /\ Refusals(In) \/ Chained(In, client.at)
        /\ Coherent(Bodies(In), 0, k)
    BY <1>0, <1>3, FollowingChannel
  <2>2. In' = link'[c].in /\ Out' = link'[c].out /\ Up' = link'[c].up /\ In = link[c].in /\ Out = link[c].out /\ Up = link[c].up
    BY <1>1 DEF In, Out, Up
  <2>3. link[c].heard
    BY <1>0, <1>3 DEF LinksInTurn
  <2>4. \A i \in DOMAIN Out : Out[i].kind = "sync" /\ Out[i].body # Nowhere =>
            i = 1 /\ Out[i].body = client.at /\ ~link[c].bound /\ In = <<>>
    BY <1>0, <1>3 DEF Following
  <2> HIDE DEF c
  <2>5. CASE c = n /\ Up = "open"
    <3>1. Heard(In', e)
      BY <1>0, <1>3, <2>1, <2>2, <2>5, ReboundHeard DEF c
    <3>2. \A i \in DOMAIN Out' : Out'[i].kind = "sync" => Out'[i].body = Nowhere
      <4>1. Out' = Tail(Out) /\ Out # <<>>
        BY <2>1, <2>2, <2>5 DEF Rebinds
      <4> DEFINE P == ~link[c].bound
      <4>2. \A i \in DOMAIN Out : Out[i].kind = "sync" /\ Out[i].body # Nowhere => i = 1 /\ P
        BY <2>4
      <4> QED BY <2>1, <4>1, <4>2, TailOfSyncs
    <3>3. Up' = "open"
      BY <2>2, <2>5 DEF Rebinds
    <3>4. \A i \in DOMAIN In' :
            /\ In'[i].at[1] \in 1..hub'.epoch /\ Ext(In'[i].ev) <= Len(history')
            /\ In'[i].at[1] = hub'.epoch => (In'[i].ev.kind = "unavailable" <=> ~Able')
            /\ Up' = "open" => In'[i].at[1] = hub'.epoch
      BY <1>1, <1>2, <3>1 DEF Heard, Channel, Able
    <3>5. client'.at[1] <= hub'.epoch
      BY <1>0, <1>1 DEF Following
    <3>6. Following'
      BY <1>1, <1>2, <3>1, <3>2, <3>4, <3>5 DEF Following, Heard, Live
    <3> QED BY <3>1, <3>6 DEF Heard
  <2>6. CASE ~(c = n /\ Up = "open")
    <3>1. In' = In
      BY <2>1, <2>2, <2>6 DEF Rebinds
    <3>2. ~Live'
      <4>1. c # n => ~link'[c].bound
        BY <2>1 DEF Rebinds
      <4>2. c = n => Up' # "open"
        BY <2>1, <2>2, <2>6 DEF Rebinds
      <4> QED BY <1>1, <4>1, <4>2 DEF Live, c
    <3>3. \A i \in DOMAIN Out' : Out'[i].kind = "sync" /\ Out'[i].body # Nowhere =>
            i = 1 /\ Out'[i].body = client.at /\ ~link'[c].bound /\ In = <<>>
      <4>1. CASE c = n
        <5>1. Out' = Tail(Out) /\ Out # <<>>
          BY <2>1, <2>2, <4>1 DEF Rebinds
        <5> DEFINE P == ~link[c].bound
        <5>2. \A i \in DOMAIN Out : Out[i].kind = "sync" /\ Out[i].body # Nowhere => i = 1 /\ P
          BY <2>4
        <5>3. \A i \in DOMAIN Out' : Out'[i].kind = "sync" => Out'[i].body = Nowhere
          BY <2>1, <5>1, <5>2, TailOfSyncs
        <5> QED BY <5>3
      <4>2. CASE c # n
        BY <2>1, <2>2, <2>4, <4>2 DEF Rebinds
      <4> QED BY <4>1, <4>2
    <3>4. \A i \in DOMAIN In :
            /\ In[i].at[1] \in 1..hub'.epoch /\ Ext(In[i].ev) <= Len(history')
            /\ In[i].at[1] = hub'.epoch => (In[i].ev.kind = "unavailable" <=> ~Able')
            /\ Up' = "open" => In[i].at[1] = hub'.epoch
      <4>1. Up' = "open" => Up = "open"
        BY <2>1, <2>2 DEF Rebinds
      <4> QED BY <1>1, <1>2, <2>1, <4>1 DEF Channel, Able
    <3>5. client'.at[1] <= hub'.epoch
      BY <1>0, <1>1 DEF Following
    <3>6. Following'
      BY <1>1, <1>2, <2>1, <3>1, <3>2, <3>3, <3>4, <3>5 DEF Following, c
    <3>7. \A i \in DOMAIN In' : Comes(In'[i], <<e>>)
      BY <3>1 DEF Comes
    <3> QED BY <2>1, <3>1, <3>6, <3>7
  <2> QED BY <2>5, <2>6
<1>4. Following'
  <2>1. CASE ~Active
    <3>1. ~Active' /\ ~Live' /\ client'.at[1] <= hub'.epoch
      BY <1>0, <1>1, <2>1 DEF Live, Following
    <3> QED BY <3>1 DEF Following
  <2> QED BY <1>3, <2>1
<1>5. StreamLeads'
  <2> DEFINE evs == <<e>>
  <2>1. /\ evs \in Seq(StreamEvents) /\ Len(evs) = 1 /\ \A i \in 1..Len(evs) : i = 1 /\ evs[i] = e
    BY OneEvent
  <2>2. hub'.log = Kept(hub.log \o evs) /\ (Active => \A i \in DOMAIN In' : Comes(In'[i], evs))
    BY <1>1, <1>3
  <2> HIDE DEF evs
  <2>3. Fits(evs, H, hub.owed, H, hub.owed)
    <3>1. \A i \in 1..Len(evs) : Ext(evs[i]) <= H /\ evs[i].kind # "message" /\ (evs[i].kind = "snapshot" => Ext(evs[i]) = H)
      BY <2>1
    <3>2. \A i \in 1..Len(evs) : \A j \in 1..(i - 1) : FALSE
      BY <2>1
    <3>3. \A q \in 1..H : q <= H
      BY <1>2
    <3> HIDE DEF H
    <3> QED BY <1>2, <3>1, <3>2, <3>3 DEF Fits
  <2>4. /\ \A i \in 1..Len(evs) : evs[i].kind = "snapshot" => i = Len(evs) /\ Ext(evs[i]) = Len(history')
        /\ \A i \in 1..Len(evs) : evs[i].kind = "unavailable" <=> ~Able
    BY <1>2, <2>1
  <2>5. hub'.last = hub.last + Len(evs) /\ Len(history) <= Len(history') /\ Len(history') \in Nat
    BY <1>1, <1>2, <2>1
  <2>6. Active => In' \in Seq(SentEvents) /\ \A i \in DOMAIN In' : In'[i].at[1] = hub.epoch => Comes(In'[i], evs)
    BY <1>3, <2>2
  <2>7. Fits(evs, Len(history), hub.owed, Len(history'), hub'.owed)
    BY <1>1, <1>2, <2>3
  <2> QED BY <1>0, <1>1, <2>1, <2>2, <2>4, <2>5, <2>6, <2>7, StreamPublished
<1> QED BY <1>4, <1>5

\* What was on its way still is.
LEMMA StaysUnderWay ==
  ASSUME NEW id, UnderWay(id), client'.conn = client.conn,
         \A i \in DOMAIN In : \E j \in DOMAIN In' : In'[j].ev = In[i].ev,
         \A i \in DOMAIN Out : Out[i].id = id => \E j \in DOMAIN Out' : Out'[j].id = id
  PROVE  UnderWay(id)'
<1>1. CASE \E i \in DOMAIN In : In[i].ev.to = id
  <2>1. \E j \in DOMAIN In' : In'[j].ev.to = id
    BY <1>1
  <2> QED BY <2>1 DEF UnderWay, In
<1>2. CASE \E i \in DOMAIN Out : Out[i].id = id
  <2>1. \E j \in DOMAIN Out' : Out'[j].id = id
    BY <1>2
  <2> QED BY <2>1 DEF UnderWay, Out
<1> QED BY <1>1, <1>2 DEF UnderWay, In, Out

\* All but the first are left.
LEMMA LeftInTail ==
  ASSUME NEW q \in Seq(Commands), q # <<>>, NEW i \in DOMAIN q, q[i] # Head(q)
  PROVE  \E j \in DOMAIN Tail(q) : Tail(q)[j] = q[i]
<1>1. /\ Tail(q) \in Seq(Commands) /\ Len(Tail(q)) = Len(q) - 1 /\ Len(q) \in Nat /\ Head(q) = q[1]
      /\ \A k \in 1..Len(Tail(q)) : Tail(q)[k] = q[k + 1]
      /\ DOMAIN q = 1..Len(q)
  BY HeadTailProperties, LenProperties
<1>2. DOMAIN Tail(q) = 1..Len(Tail(q))
  BY <1>1, LenProperties
<1>3. i # 1 /\ i \in 1..Len(q)
  BY <1>1
<1>4. i - 1 \in 1..Len(Tail(q)) /\ (i - 1) + 1 = i
  BY <1>1, <1>3
<1>5. Tail(q)[i - 1] = q[i]
  BY <1>1, <1>4
<1> QED BY <1>2, <1>4, <1>5

\* sync
LEMMA SyncTaken ==
  ASSUME DeviceIInv, NEW n \in Links, link[n].out # <<>>, Head(link[n].out).kind = "sync",
         link[n].up \in {"open", "closing"},
         TakesSync(n, [link EXCEPT ![n].out = Tail(@)], Head(link[n].out)), client' = client
  PROVE  DeviceIInv'
<1> DEFINE c == client.conn
           m == Head(link[n].out)
<1>0. /\ DeviceTypes /\ RecordedOnce /\ LinksInTurn /\ OwedInOrder /\ Following /\ ShowsFirst /\ StreamLeads
      /\ SendsAreOnTheWay /\ AppReadsAreOnTheWay
  BY DEF DeviceIInv
<1>1. PICK e \in StreamEvents, missed \in Seq(SentEvents) :
         /\ Rebinds(n, e, missed) /\ SyncSays(m, e, missed)
         /\ e.to = m.id /\ Ext(e) <= Len(history) /\ (e.kind = "unavailable" <=> ~Able)
         /\ e.kind \notin {"message", "completed", "read"}
         /\ (e.kind = "snapshot" => Able /\ Ext(e) = Len(history))
  BY <1>0, SyncShape
<1>2. LinksInTurn'
  BY <1>0, <1>1, ReboundLinks
<1>3. Following' /\ StreamLeads'
  BY <1>1, ReboundKeeps
<1>4. /\ hub' \in Hubs /\ hub'.owed = hub.owed /\ hub'.loop = hub.loop /\ link' \in [Links -> LinkStates]
      /\ history' = history /\ over' = over /\ readTo' = readTo /\ client' = client
  BY <1>1 DEF Rebinds
<1>5. DeviceTypes'
  BY <1>0, <1>4 DEF DeviceTypes
<1>6. RecordedOnce' /\ ShowsFirst' /\ OwedInOrder'
  <2>1. RecordedOnce'
    BY <1>0, <1>4 DEF RecordedOnce, Places
  <2>2. ShowsFirst'
    BY <1>0, <1>4 DEF ShowsFirst, ShownInOrder
  <2>3. OwedInOrder'
    BY <1>0, <1>4 DEF OwedInOrder, Able
  <2> QED BY <2>1, <2>2, <2>3
<1>7. ASSUME Serving', NEW id, id \notin SyncIds, UnderWay(id) PROVE UnderWay(id)'
  <2>1. c \in Links /\ Active
    BY <1>0, <1>4, <1>7 DEF Serving, LinksInTurn, DeviceTypes, Clients, Links, Active
  <2>2. c = n /\ link[n].up = "open" /\ link[n].heard
    <3>1. c = n
      BY <1>1, <1>4, <1>7, <2>1 DEF Serving, Rebinds
    <3> QED BY <1>0, <1>1, <1>4, <1>7, <2>1, <3>1 DEF Serving, Rebinds, LinksInTurn
  <2>3. link[n] \in LinkStates /\ link[n].in \in Seq(SentEvents) /\ link[n].out \in Seq(Commands)
    BY <1>0 DEF DeviceTypes, LinkStates
  <2>4. In' = (In \o missed) \o Texts(hub, <<e>>) /\ Out' = Tail(Out) /\ In = link[n].in /\ Out = link[n].out
    <3>1. In' = link'[n].in /\ Out' = link'[n].out /\ In = link[n].in /\ Out = link[n].out
      BY <1>4, <2>2 DEF In, Out
    <3>2. link'[n].in = (link[n].in \o missed) \o Texts(hub, <<e>>) /\ link'[n].out = Tail(link[n].out)
      BY <1>1, <2>2 DEF Rebinds
    <3> QED BY <3>1, <3>2
  <2>5. \A i \in DOMAIN In : \E j \in DOMAIN In' : In'[j].ev = In[i].ev
    <3>1. Texts(hub, <<e>>) \in Seq(SentEvents)
      <4>1. <<e>> \in Seq(StreamEvents)
        BY OneEvent
      <4> QED BY <1>0, <4>1, TextsOfEvents DEF DeviceTypes, Hubs
    <3>2. In \o missed \in Seq(SentEvents) /\ Len(In) \in Nat /\ Len(missed) \in Nat
      BY <2>3, <2>4, Joined
    <3>3. Len(In \o missed) = Len(In) + Len(missed) /\ \A i \in 1..Len(In) : (In \o missed)[i] = In[i]
      BY <2>3, <2>4, Joined
    <3>4. In' \in Seq(SentEvents)
      BY <2>4, <3>1, <3>2, Joined
    <3>5. Len(In') = Len(In \o missed) + Len(Texts(hub, <<e>>)) /\ Len(Texts(hub, <<e>>)) \in Nat
      BY <2>4, <3>1, <3>2, Joined
    <3>6. \A i \in 1..Len(In \o missed) : In'[i] = (In \o missed)[i]
      BY <2>4, <3>1, <3>2, Joined
    <3>7. DOMAIN In = 1..Len(In) /\ DOMAIN In' = 1..Len(In')
      BY <2>3, <2>4, <3>4, LenProperties
    <3>8. ASSUME NEW i \in DOMAIN In PROVE i \in DOMAIN In' /\ In'[i] = In[i]
      <4>1. i \in 1..Len(In) /\ i \in 1..Len(In \o missed) /\ i \in 1..Len(In')
        BY <3>2, <3>3, <3>5, <3>7
      <4> QED BY <3>3, <3>6, <3>7, <4>1
    <3> QED BY <3>8
  <2>6. ASSUME NEW i \in DOMAIN Out, Out[i].id = id PROVE \E j \in DOMAIN Out' : Out'[j].id = id
    <3>1. Out[i] # Head(Out)
      <4>1. m.id \in SyncIds
        BY <1>0, HeadCommand
      <4> QED BY <1>7, <2>4, <2>6, <4>1
    <3> QED BY <2>3, <2>4, <2>6, <3>1, LeftInTail
  <2> QED BY <1>4, <1>7, <2>5, <2>6, StaysUnderWay
<1>8. Serving' => Serving
  <2> SUFFICES ASSUME Serving' PROVE Serving
    OBVIOUS
  <2>1. c \in Links /\ Active
    BY <1>0, <1>4 DEF Serving, LinksInTurn, DeviceTypes, Clients, Links, Active
  <2>2. c = n
    BY <1>1, <1>4, <2>1 DEF Serving, Rebinds
  <2>3. link[c].up = "open" /\ client.phase = "ready"
    BY <1>1, <1>4, <2>1, <2>2 DEF Serving, Rebinds
  <2> QED BY <1>0, <2>3 DEF Serving, LinksInTurn, Up
<1>9. \A r \in Requests : <<"send", r>> \notin SyncIds
  BY DEF SyncIds
<1>10. \A p \in Nat : <<"read", p>> \notin SyncIds
  BY DEF SyncIds
<1>11. SendsAreOnTheWay'
  BY <1>0, <1>4, <1>7, <1>8, <1>9 DEF SendsAreOnTheWay
<1>12. AppReadsAreOnTheWay'
  <2>1. client.reads \subseteq Nat
    BY <1>0 DEF DeviceTypes, Clients
  <2> QED BY <1>0, <1>4, <1>7, <1>8, <1>10, <2>1 DEF AppReadsAreOnTheWay, ReadsAreOnTheWay
<1> QED BY <1>2, <1>3, <1>5, <1>6, <1>11, <1>12 DEF DeviceIInv

\* A command on a connection that does not have the device.
LEMMA CommandRefused ==
  ASSUME DeviceIInv, NEW n \in Links, link[n].out # <<>>, ~link[n].bound,
         link' = [link EXCEPT ![n].out = Tail(@)], UNCHANGED <<history, over, readTo, hub, client>>
  PROVE  DeviceIInv'
<1> DEFINE c == client.conn
<1>0. /\ DeviceTypes /\ RecordedOnce /\ LinksInTurn /\ OwedInOrder /\ Following /\ ShowsFirst /\ StreamLeads
      /\ SendsAreOnTheWay /\ AppReadsAreOnTheWay
  BY DEF DeviceIInv
<1>1. /\ link' \in [Links -> LinkStates] /\ link'[n].out = Tail(link[n].out)
      /\ \A k \in Links :
           /\ link'[k].in = link[k].in /\ link'[k].up = link[k].up /\ link'[k].bound = link[k].bound
           /\ link'[k].heard = link[k].heard /\ link'[k].code = link[k].code
           /\ k # n => link'[k].out = link[k].out
  BY <1>0, TakenLinks DEF SameLinks
<1>2. (Active' <=> Active) /\ (Able' <=> Able)
  BY DEF Active, Able
<1>3. DeviceTypes' /\ RecordedOnce' /\ OwedInOrder' /\ ShowsFirst'
  <2>1. DeviceTypes'
    BY <1>0, <1>1 DEF DeviceTypes
  <2>2. RecordedOnce'
    BY <1>0 DEF RecordedOnce, Places
  <2>3. ShowsFirst'
    BY <1>0 DEF ShowsFirst, ShownInOrder
  <2>4. OwedInOrder'
    BY <1>0 DEF OwedInOrder, Able
  <2> QED BY <2>1, <2>2, <2>3, <2>4
<1>4. LinksInTurn'
  <2>1. ASSUME NEW k \in Links, k > c
        PROVE  link'[k] = [up |-> "unused", bound |-> FALSE, heard |-> TRUE, code |-> "none", out |-> <<>>, in |-> <<>>]
    <3>1. link[k] = [up |-> "unused", bound |-> FALSE, heard |-> TRUE, code |-> "none", out |-> <<>>, in |-> <<>>]
      BY <1>0, <2>1 DEF LinksInTurn
    <3>2. k # n
      BY <3>1
    <3> QED BY <3>1, <3>2, <1>0 DEF DeviceTypes
  <2>2. ASSUME Active PROVE c # 0 /\ link'[c].heard /\ link'[c].up # "unused"
    <3>1. c \in Links
      BY <1>0, <2>2 DEF LinksInTurn, DeviceTypes, Clients, Links
    <3> QED BY <1>0, <1>1, <2>2, <3>1 DEF LinksInTurn, Up
  <2>3. ASSUME client.phase = "ready", link'[c].up = "open" PROVE Able' /\ link'[c].bound
    <3>1. c \in Links
      BY <1>0, <2>3 DEF LinksInTurn, DeviceTypes, Clients, Links, Active
    <3> QED BY <1>0, <1>1, <1>2, <2>3, <3>1 DEF LinksInTurn, Up
  <2> QED BY <1>0, <1>1, <1>2, <2>1, <2>2, <2>3 DEF LinksInTurn, Up
<1>5. ASSUME Active
      PROVE  c \in Links /\ In' = In /\ Up' = Up /\ link'[c].bound = link[c].bound
  <2>1. c \in Links
    BY <1>0, <1>5 DEF LinksInTurn, DeviceTypes, Clients, Links
  <2> QED BY <1>1, <2>1 DEF In, Up
<1>6. Following'
  <2>1. CASE ~Active
    BY <1>0, <1>2, <2>1 DEF Following, Live
  <2>2. CASE Active
    <3>1. \A i \in DOMAIN Out' : Out'[i].kind = "sync" /\ Out'[i].body # Nowhere =>
            i = 1 /\ Out'[i].body = client.at /\ ~link[c].bound /\ In = <<>>
      <4>1. \A i \in DOMAIN Out : Out[i].kind = "sync" /\ Out[i].body # Nowhere =>
              i = 1 /\ Out[i].body = client.at /\ (~link[c].bound /\ In = <<>>)
        BY <1>0, <2>2 DEF Following
      <4>2. Out' = Out \/ (Out # <<>> /\ Out' = Tail(Out))
        BY <1>1, <1>5, <2>2 DEF Out
      <4>3. Out \in Seq(Commands)
        BY <1>0, <2>2, FollowingChannel
      <4> HIDE DEF c
      <4> QED BY <4>1, <4>2, <4>3, SyncsKept
    <3>2. Live' <=> Live
      BY <1>2, <1>5, <2>2 DEF Live
    <3> QED BY <1>0, <1>2, <1>5, <2>2, <3>1, <3>2 DEF Following
  <2> QED BY <2>1, <2>2
<1>7. StreamLeads'
  <2>1. PICK full \in Seq(StreamEvents) : StreamOf(full)
    BY <1>0 DEF StreamLeads
  <2>2. StreamOf(full)'
    BY <1>2, <1>5, <2>1 DEF StreamOf
  <2> QED BY <2>2 DEF StreamLeads
<1>8. ASSUME Serving' PROVE Serving /\ \A id : UnderWay(id) => UnderWay(id)'
  <2>1. c \in Links
    BY <1>0, <1>8 DEF Serving, LinksInTurn, DeviceTypes, Clients, Links, Active
  <2>2. Serving /\ c # n
    BY <1>1, <1>8, <2>1 DEF Serving
  <2>3. link'[c].in = link[c].in /\ link'[c].out = link[c].out
    BY <1>1, <2>1, <2>2
  <2> QED BY <2>2, <2>3 DEF UnderWay
<1>9. SendsAreOnTheWay' /\ AppReadsAreOnTheWay'
  BY <1>0, <1>8 DEF SendsAreOnTheWay, AppReadsAreOnTheWay, ReadsAreOnTheWay
<1> QED BY <1>3, <1>4, <1>6, <1>7, <1>9 DEF DeviceIInv

LEMMA Taken ==
  ASSUME DeviceIInv, NEW n \in Links, ServerTakes(n) PROVE DeviceIInv'
<1> DEFINE m == Head(link[n].out)
           l == [link EXCEPT ![n].out = Tail(@)]
<1>1. /\ link[n].up \in {"open", "closing"} /\ link[n].out # <<>> /\ client' = client
      /\ \/ m.kind = "sync" /\ TakesSync(n, l, m)
         \/ m.kind = "send" /\ link[n].bound /\ TakesSend(n, l, m)
         \/ m.kind = "read" /\ link[n].bound /\ TakesRead(n, l, m)
         \/ /\ m.kind # "sync"
            /\ ~link[n].bound
            /\ link' = l
            /\ UNCHANGED <<history, over, readTo, hub>>
  BY DEF ServerTakes
<1>2. CASE m.kind = "sync" /\ TakesSync(n, l, m)
  BY <1>1, <1>2, SyncTaken
<1>3. CASE m.kind = "send" /\ link[n].bound /\ TakesSend(n, l, m)
  BY <1>1, <1>3, SendTaken
<1>4. CASE m.kind = "read" /\ link[n].bound /\ TakesRead(n, l, m)
  BY <1>1, <1>4, ReadTaken
<1>5. CASE ~link[n].bound /\ link' = l /\ UNCHANGED <<history, over, readTo, hub>>
  BY <1>1, <1>5, CommandRefused
<1> QED BY <1>1, <1>2, <1>3, <1>4, <1>5

-----------------------------------------------------------------------------
\* What the device sends again, and what an event makes of what it shows.

\* Every element of a finite set, in some order.
LEMMA AllInSequence ==
  ASSUME NEW S, NEW T \in SUBSET S, IsFiniteSet(T)
  PROVE  /\ SetToSeq(T) \in Seq(S) /\ Len(SetToSeq(T)) = Cardinality(T)
         /\ \A i \in DOMAIN SetToSeq(T) : SetToSeq(T)[i] \in T
         /\ \A x \in T : \E i \in DOMAIN SetToSeq(T) : SetToSeq(T)[i] = x
<1> DEFINE n == Cardinality(T)
           f == SetToSeq(T)
<1>1. n \in Nat /\ ExistsBijection(1..n, T)
  BY FS_CardinalityType
<1>2. \E g \in [1..n -> T] : IsInjective(g)
  BY <1>1 DEF ExistsBijection, Bijection, Injection
<1>3. f \in [1..n -> T] /\ IsInjective(f)
  BY <1>2 DEF SetToSeq
<1> HIDE DEF f
<1>4. f \in Injection(1..n, T)
  BY <1>3 DEF Injection
<1>5. IsFiniteSet(1..n) /\ Cardinality(1..n) = n
  BY <1>1, FS_Interval
<1>6. f \in Surjection(1..n, T)
  BY <1>4, <1>5, FS_Injection
<1>7. \A x \in T : \E i \in 1..n : f[i] = x
  BY <1>6 DEF Surjection
<1>8. f \in Seq(T) /\ Len(f) = n
  BY <1>1, <1>3, SeqDef, LenProperties
<1>9. f \in Seq(S)
  BY <1>1, <1>3, SeqDef
<1> QED BY <1>3, <1>7, <1>8, <1>9 DEF f

LEMMA CommandsOf ==
  /\ \A r \in Requests : SendOf(r) \in Commands /\ SendOf(r).kind = "send" /\ SendOf(r).id = <<"send", r>>
  /\ \A p \in Nat : ReadOf(p) \in Commands /\ ReadOf(p).kind = "read" /\ ReadOf(p).id = <<"read", p>>
BY DEF SendOf, ReadOf, Commands, SendIds, ReadIds

LEMMA UnsentSends ==
  ASSUME NEW c \in Clients
  PROVE  LET s == SetToSeq({SendOf(r) : r \in {q \in Requests : c.sent[q] = "sending"}})
         IN /\ s \in Seq(Commands) /\ \A i \in DOMAIN s : s[i].kind = "send"
            /\ \A r \in Requests : c.sent[r] = "sending" => \E i \in DOMAIN s : s[i].id = <<"send", r>>
<1> DEFINE Q == {q \in Requests : c.sent[q] = "sending"}
           T == {SendOf(r) : r \in Q}
           f == [r \in Q |-> SendOf(r)]
<1>1. IsFiniteSet(Q)
  BY DeviceAssumption, FS_Subset
<1>2. f \in Surjection(Q, T)
  BY DEF Surjection
<1>3. IsFiniteSet(T)
  BY <1>1, <1>2, FS_Surjection
<1>4. T \subseteq Commands /\ (\A x \in T : x.kind = "send") /\ \A r \in Q : SendOf(r) \in T
  BY CommandsOf
<1>5. /\ SetToSeq(T) \in Seq(Commands)
      /\ \A i \in DOMAIN SetToSeq(T) : SetToSeq(T)[i] \in T
      /\ \A x \in T : \E i \in DOMAIN SetToSeq(T) : SetToSeq(T)[i] = x
  BY <1>3, <1>4, AllInSequence
<1>6. \A r \in Requests : c.sent[r] = "sending" => \E i \in DOMAIN SetToSeq(T) : SetToSeq(T)[i].id = <<"send", r>>
  <2> SUFFICES ASSUME NEW r \in Requests, c.sent[r] = "sending"
               PROVE  \E i \in DOMAIN SetToSeq(T) : SetToSeq(T)[i].id = <<"send", r>>
    OBVIOUS
  <2>1. SendOf(r) \in T /\ SendOf(r).id = <<"send", r>>
    BY <1>4, CommandsOf
  <2>2. PICK i \in DOMAIN SetToSeq(T) : SetToSeq(T)[i] = SendOf(r)
    BY <1>5, <2>1
  <2> QED BY <2>1, <2>2
<1>7. \A i \in DOMAIN SetToSeq(T) : SetToSeq(T)[i].kind = "send"
  BY <1>4, <1>5
<1> QED BY <1>5, <1>6, <1>7

LEMMA UnsentReads ==
  ASSUME NEW c \in Clients, IsFiniteSet(c.reads)
  PROVE  LET s == SetToSeq({ReadOf(p) : p \in c.reads})
         IN /\ s \in Seq(Commands) /\ \A i \in DOMAIN s : s[i].kind = "read"
            /\ \A p \in c.reads : \E i \in DOMAIN s : s[i].id = <<"read", p>>
<1> DEFINE Q == c.reads
           T == {ReadOf(p) : p \in Q}
           f == [p \in Q |-> ReadOf(p)]
<1>1. Q \subseteq Nat
  BY DEF Clients
<1>2. f \in Surjection(Q, T)
  BY DEF Surjection
<1>3. IsFiniteSet(T)
  BY <1>2, FS_Surjection
<1>4. T \subseteq Commands /\ (\A x \in T : x.kind = "read") /\ \A p \in Q : ReadOf(p) \in T
  BY <1>1, CommandsOf
<1>5. /\ SetToSeq(T) \in Seq(Commands)
      /\ \A i \in DOMAIN SetToSeq(T) : SetToSeq(T)[i] \in T
      /\ \A x \in T : \E i \in DOMAIN SetToSeq(T) : SetToSeq(T)[i] = x
  BY <1>3, <1>4, AllInSequence
<1>6. \A p \in Q : \E i \in DOMAIN SetToSeq(T) : SetToSeq(T)[i].id = <<"read", p>>
  <2> SUFFICES ASSUME NEW p \in Q PROVE \E i \in DOMAIN SetToSeq(T) : SetToSeq(T)[i].id = <<"read", p>>
    OBVIOUS
  <2>1. ReadOf(p) \in T /\ ReadOf(p).id = <<"read", p>>
    BY <1>1, <1>4, CommandsOf
  <2>2. PICK i \in DOMAIN SetToSeq(T) : SetToSeq(T)[i] = ReadOf(p)
    BY <1>5, <2>1
  <2> QED BY <2>1, <2>2
<1>7. \A i \in DOMAIN SetToSeq(T) : SetToSeq(T)[i].kind = "read"
  BY <1>4, <1>5
<1> QED BY <1>5, <1>6, <1>7

\* becomeReady sends all that is not answered.
LEMMA AllUnsent ==
  ASSUME NEW c \in Clients, IsFiniteSet(c.reads)
  PROVE  /\ Unsent(c) \in Seq(Commands) /\ \A i \in DOMAIN Unsent(c) : Unsent(c)[i].kind # "sync"
         /\ \A r \in Requests : c.sent[r] = "sending" => \E i \in DOMAIN Unsent(c) : Unsent(c)[i].id = <<"send", r>>
         /\ c.kind = "app" => \A p \in c.reads : \E i \in DOMAIN Unsent(c) : Unsent(c)[i].id = <<"read", p>>
<1> DEFINE a == SetToSeq({SendOf(r) : r \in {q \in Requests : c.sent[q] = "sending"}})
           t == SetToSeq({ReadOf(p) : p \in c.reads})
           b == IF c.kind = "app" THEN t ELSE <<>>
           u == a \o b
<1>0. Unsent(c) = u
  BY DEF Unsent
<1>1. /\ a \in Seq(Commands) /\ \A i \in DOMAIN a : a[i].kind = "send"
      /\ \A r \in Requests : c.sent[r] = "sending" => \E i \in DOMAIN a : a[i].id = <<"send", r>>
  BY UnsentSends
<1>2. /\ t \in Seq(Commands) /\ \A i \in DOMAIN t : t[i].kind = "read"
      /\ \A p \in c.reads : \E i \in DOMAIN t : t[i].id = <<"read", p>>
  BY UnsentReads
<1> HIDE DEF a, t
<1>3. /\ b \in Seq(Commands) /\ (\A i \in DOMAIN b : b[i].kind = "read")
      /\ c.kind = "app" => b = t
  BY <1>2
<1> HIDE DEF b
<1>4. u \in Seq(Commands) /\ Len(a) \in Nat /\ Len(b) \in Nat /\ Len(u) = Len(a) + Len(b)
  BY <1>1, <1>3, Joined
<1>5. \A i \in 1..Len(a) : u[i] = a[i]
  BY <1>1, <1>3, Joined
<1>6. \A i \in 1..Len(b) : u[Len(a) + i] = b[i]
  BY <1>1, <1>3, Joined
<1>7. \A i \in (Len(a) + 1)..(Len(a) + Len(b)) : u[i] = b[i - Len(a)]
  BY <1>1, <1>3, Joined
<1> HIDE DEF u
<1>8. DOMAIN u = 1..(Len(a) + Len(b)) /\ DOMAIN a = 1..Len(a) /\ DOMAIN b = 1..Len(b)
  BY <1>1, <1>3, <1>4, LenProperties
<1>9. ASSUME NEW i \in DOMAIN u PROVE u[i].kind # "sync"
  <2>1. CASE i <= Len(a)
    <3>1. i \in 1..Len(a)
      BY <1>4, <1>8, <2>1
    <3> QED BY <1>1, <1>5, <1>8, <3>1
  <2>2. CASE ~(i <= Len(a))
    <3>1. i \in (Len(a) + 1)..(Len(a) + Len(b)) /\ i - Len(a) \in 1..Len(b)
      BY <1>4, <1>8, <2>2
    <3> QED BY <1>3, <1>7, <1>8, <3>1
  <2> QED BY <2>1, <2>2
<1>10. ASSUME NEW i \in DOMAIN a PROVE i \in DOMAIN u /\ u[i] = a[i]
  <2>1. i \in 1..Len(a) /\ i \in 1..(Len(a) + Len(b))
    BY <1>4, <1>8
  <2> QED BY <1>5, <1>8, <2>1
<1>11. ASSUME NEW i \in DOMAIN b PROVE Len(a) + i \in DOMAIN u /\ u[Len(a) + i] = b[i]
  <2>1. i \in 1..Len(b) /\ Len(a) + i \in 1..(Len(a) + Len(b))
    BY <1>4, <1>8
  <2> QED BY <1>6, <1>8, <2>1
<1>12. \A r \in Requests : c.sent[r] = "sending" => \E i \in DOMAIN u : u[i].id = <<"send", r>>
  BY <1>1, <1>10
<1>13. ASSUME c.kind = "app", NEW p \in c.reads PROVE \E i \in DOMAIN u : u[i].id = <<"read", p>>
  <2>1. PICK i \in DOMAIN b : b[i].id = <<"read", p>>
    BY <1>2, <1>3, <1>13
  <2> QED BY <1>11, <2>1
<1> QED BY <1>0, <1>4, <1>9, <1>12, <1>13

\* What an event leaves of the device: its session, and no send or read that it has not.
StaysOf(a, d) ==
  /\ a \in Clients /\ a.kind = d.kind /\ a.phase = d.phase /\ a.conn = d.conn /\ a.at = d.at
  /\ a.asked = d.asked /\ a.syncs = d.syncs /\ a.tries = d.tries
  /\ a.reads \subseteq d.reads /\ \A r \in Requests : a.sent[r] = "sending" => d.sent[r] = "sending"

\* An answer ends what it answers.
Concludes(a, e) ==
  e.kind = "accepted" =>
    /\ \A r \in Requests : a.sent[r] = "sending" => e.to # <<"send", r>>
    /\ \A p \in a.reads : e.to # <<"read", p>>

LEMMA MessageApplied ==
  ASSUME NEW d \in Clients, NEW m \in [place : Nat \ {0}, own : BOOLEAN],
         \A i \in DOMAIN d.shown : d.shown[i] = i, m.place <= Len(d.shown) + 1
  PROVE  LET a == WithMessage(d, m)
         IN /\ StaysOf(a, d) /\ \A i \in DOMAIN a.shown : a.shown[i] = i
            /\ Len(d.shown) <= Len(a.shown) /\ m.place <= Len(a.shown)
            /\ Len(a.shown) = Len(d.shown) \/ Len(a.shown) = m.place
<1> DEFINE a == WithMessage(d, m)
<1>1. d.shown \in Seq(Nat) /\ Len(d.shown) \in Nat /\ DOMAIN d.shown = 1..Len(d.shown)
  BY LenProperties DEF Clients
<1>2. m.place \in Nat \ {0} /\ m.own \in BOOLEAN
  OBVIOUS
<1>3. CASE m.place \in Range(d.shown)
  <2>1. a = d
    BY <1>3 DEF WithMessage
  <2>2. PICK i \in DOMAIN d.shown : m.place = d.shown[i]
    BY <1>3 DEF Range
  <2>3. m.place <= Len(d.shown)
    BY <1>1, <2>2
  <2>4. StaysOf(d, d)
    BY DEF StaysOf
  <2> QED BY <1>1, <2>1, <2>3, <2>4
<1>4. CASE m.place \notin Range(d.shown)
  <2>1. m.place = Len(d.shown) + 1
    <3>1. ASSUME m.place <= Len(d.shown) PROVE FALSE
      <4>1. m.place \in DOMAIN d.shown
        BY <1>1, <1>2, <3>1
      <4>2. d.shown[m.place] = m.place
        BY <4>1
      <4> QED BY <1>4, <4>1, <4>2 DEF Range
    <3> QED BY <1>1, <1>2, <3>1
  <2> DEFINE s == Append(d.shown, m.place)
             pe == IF m.own THEN d.pending \cup {m.place} ELSE d.pending
             u == IF m.own THEN d.unread ELSE d.unread + 1
  <2>2. s \in Seq(Nat) /\ Len(s) = Len(d.shown) + 1 /\ \A i \in 1..Len(s) : s[i] = i
    <3>1. s \in Seq(Nat) /\ Len(s) = Len(d.shown) + 1 /\ s[Len(d.shown) + 1] = m.place
          /\ \A i \in 1..Len(d.shown) : s[i] = d.shown[i]
      BY <1>1, <1>2, AppendProperties
    <3> HIDE DEF s
    <3>2. ASSUME NEW i \in 1..Len(s) PROVE s[i] = i
      <4>1. CASE i = Len(d.shown) + 1
        BY <2>1, <3>1, <4>1
      <4>2. CASE i # Len(d.shown) + 1
        <5>1. i \in 1..Len(d.shown)
          BY <1>1, <3>1, <4>2
        <5> QED BY <1>1, <3>1, <5>1
      <4> QED BY <4>1, <4>2
    <3> QED BY <3>1, <3>2
  <2>3. pe \in SUBSET Nat /\ u \in Nat
    BY <1>2 DEF Clients
  <2>4. a = [d EXCEPT !.shown = s, !.pending = pe, !.unread = u]
    BY <1>4 DEF WithMessage
  <2> HIDE DEF s, pe, u
  <2>5. StaysOf(a, d) /\ a.shown = s
    BY <2>2, <2>3, <2>4, ZenonT(30) DEF StaysOf, Clients
  <2>6. DOMAIN s = 1..Len(s)
    BY <2>2, LenProperties
  <2>7. Len(a.shown) = Len(d.shown) + 1 /\ \A i \in DOMAIN a.shown : a.shown[i] = i
    BY <2>2, <2>5, <2>6
  <2> HIDE DEF a
  <2>8. Len(d.shown) <= Len(a.shown) /\ m.place <= Len(a.shown) /\ Len(a.shown) = m.place
    BY <1>1, <2>1, <2>7
  <2> QED BY <2>5, <2>7, <2>8 DEF a
<1> QED BY <1>3, <1>4

LEMMA ReadApplied ==
  ASSUME NEW d \in Clients, NEW b \in ReadBodies
  PROVE  StaysOf(WithRead(d, b), d) /\ WithRead(d, b).shown = d.shown /\ WithRead(d, b).reads = d.reads
BY DEF StaysOf, WithRead, Clients, ReadBodies

LEMMA SnapshotApplied ==
  ASSUME NEW d \in Clients, NEW b \in [shown : Nat, pending : SUBSET Nat, read : ReadBodies]
  PROVE  LET a == WithSnapshot(d, b)
         IN /\ StaysOf(a, d) /\ Len(a.shown) = b.shown /\ \A i \in DOMAIN a.shown : a.shown[i] = i
<1> DEFINE s == [i \in 1..b.shown |-> i]
           re == IF d.kind = "browser" THEN {} ELSE d.reads
           c == [d EXCEPT !.shown = s, !.pending = b.pending, !.reads = re]
<1>1. b.shown \in Nat /\ b.pending \in SUBSET Nat /\ b.read \in ReadBodies
  OBVIOUS
<1>2. s \in Seq(Nat) /\ Len(s) = b.shown /\ \A i \in DOMAIN s : s[i] = i
  <2>1. s \in [1..b.shown -> Nat]
    BY <1>1
  <2> QED BY <1>1, <2>1, SeqDef, LenProperties
<1>3. re \in SUBSET Nat /\ re \subseteq d.reads
  BY DEF Clients
<1> HIDE DEF s, re
<1>4. StaysOf(c, d) /\ c.shown = s
  BY <1>1, <1>2, <1>3 DEF StaysOf, Clients
<1>5. WithSnapshot(d, b) = WithRead(c, b.read)
  BY DEF WithSnapshot, s, re
<1>6. c \in Clients
  BY <1>4 DEF StaysOf
<1> HIDE DEF c
<1>7. StaysOf(WithRead(c, b.read), c) /\ WithRead(c, b.read).shown = c.shown
  BY <1>1, <1>6, ReadApplied
<1>8. StaysOf(WithRead(c, b.read), d)
  BY <1>4, <1>7 DEF StaysOf
<1> QED BY <1>2, <1>4, <1>5, <1>7, <1>8

LEMMA RefusalApplied ==
  ASSUME NEW d \in Clients, NEW e, e.to \in SyncIds \cup SendIds \cup ReadIds
  PROVE  StaysOf(WithRefusal(d, e), d) /\ WithRefusal(d, e).shown = d.shown
<1> DEFINE sends == e.to[1] = "send" /\ d.sent[e.to[2]] = "sending"
<1>1. CASE sends
  <2>1. e.to[2] \in Requests
    BY <1>1 DEF SyncIds, SendIds, ReadIds
  <2> DEFINE f == [d.sent EXCEPT ![e.to[2]] = "failed"]
             x == [d EXCEPT !.sent = f]
  <2>2. WithRefusal(d, e) = x
    BY <1>1 DEF WithRefusal
  <2>3. f \in [Requests -> {"unsent", "sending", "done", "failed"}] /\ \A r \in Requests : f[r] = "sending" => d.sent[r] = "sending"
    BY <2>1 DEF Clients
  <2> HIDE DEF f
  <2>4. StaysOf(x, d) /\ x.shown = d.shown
    BY <2>3 DEF StaysOf, Clients
  <2> HIDE DEF x
  <2> QED BY <2>2, <2>4
<1>2. CASE ~sends /\ e.to[1] = "read"
  <2>1. WithRefusal(d, e) = [d EXCEPT !.reads = @ \ {e.to[2]}]
    BY <1>2 DEF WithRefusal
  <2> QED BY <2>1 DEF StaysOf, Clients
<1>3. CASE ~sends /\ e.to[1] # "read"
  <2>1. WithRefusal(d, e) = d
    BY <1>3 DEF WithRefusal
  <2> QED BY <2>1 DEF StaysOf
<1> QED BY <1>1, <1>2, <1>3

LEMMA AnswerApplied ==
  ASSUME NEW d \in Clients, NEW e \in StreamEvents, e.kind = "accepted"
  PROVE  StaysOf(WithAnswer(d, e), d) /\ WithAnswer(d, e).shown = d.shown /\ Concludes(WithAnswer(d, e), e)
<1> DEFINE a == WithAnswer(d, e)
           sends == e.to[1] = "send" /\ d.sent[e.to[2]] \in {"sending", "failed"}
           reads == e.to[1] = "read" /\ e.to[2] \in d.reads
<1>0. \/ e.to \in SyncIds /\ e.body = 0
      \/ e.to \in SendIds /\ e.body.place \in Nat /\ e.body.pending \in BOOLEAN
      \/ e.to \in ReadIds /\ e.body \in ReadBodies
  BY AnswerShape
<1>1. CASE sends
  <2>1. e.to[2] \in Requests /\ e.body.place \in Nat /\ e.to \in SendIds
    BY <1>0, <1>1 DEF SyncIds, SendIds, ReadIds
  <2> DEFINE pe == IF e.body.pending THEN d.pending \cup {e.body.place} ELSE d.pending \ {e.body.place}
  <2>2. a = [d EXCEPT !.sent[e.to[2]] = "done", !.pending = pe]
    BY <1>1 DEF WithAnswer
  <2>3. pe \in SUBSET Nat
    BY <2>1 DEF Clients
  <2> HIDE DEF pe
  <2>4. StaysOf(a, d) /\ a.shown = d.shown /\ a.sent[e.to[2]] = "done"
    <3> DEFINE r == e.to[2]
               se == [d.sent EXCEPT ![r] = "done"]
    <3>1. /\ se \in [Requests -> {"unsent", "sending", "done", "failed"}] /\ se[r] = "done"
          /\ \A q \in Requests : se[q] = "sending" => d.sent[q] = "sending"
      BY <2>1 DEF Clients
    <3>2. a = [d EXCEPT !.sent = se, !.pending = pe]
      BY <2>2
    <3> HIDE DEF se, a
    <3> QED BY <2>3, <3>1, <3>2 DEF StaysOf, Clients
  <2>5. Concludes(a, e)
    <3>1. \A p : e.to # <<"read", p>>
      BY <2>1 DEF SendIds
    <3>2. \A r \in Requests : a.sent[r] = "sending" => e.to # <<"send", r>>
      BY <2>4
    <3> QED BY <3>1, <3>2 DEF Concludes
  <2> QED BY <2>4, <2>5
<1>2. CASE ~sends /\ reads
  <2>1. e.body \in ReadBodies /\ e.to \in ReadIds
    BY <1>0, <1>2 DEF SyncIds, SendIds, ReadIds
  <2> DEFINE c == [d EXCEPT !.reads = @ \ {e.to[2]}]
  <2>2. a = WithRead(c, e.body)
    BY <1>2 DEF WithAnswer
  <2>3. StaysOf(c, d) /\ c.shown = d.shown /\ c.reads = d.reads \ {e.to[2]}
    BY DEF StaysOf, Clients
  <2> HIDE DEF c
  <2>4. StaysOf(WithRead(c, e.body), c) /\ WithRead(c, e.body).shown = c.shown /\ WithRead(c, e.body).reads = c.reads
    BY <2>1, <2>3, ReadApplied DEF StaysOf
  <2>5. StaysOf(a, d)
    BY <2>2, <2>3, <2>4 DEF StaysOf
  <2>6. Concludes(a, e)
    <3>1. \A r : e.to # <<"send", r>>
      BY <2>1 DEF ReadIds
    <3>2. \A p \in a.reads : e.to # <<"read", p>>
      BY <2>2, <2>3, <2>4
    <3> QED BY <3>1, <3>2 DEF Concludes
  <2> QED BY <2>2, <2>3, <2>4, <2>5, <2>6
<1>3. CASE ~sends /\ ~reads
  <2>1. a = d
    BY <1>3 DEF WithAnswer
  <2>2. Concludes(d, e)
    BY <1>3 DEF Concludes
  <2> QED BY <2>1, <2>2 DEF StaysOf
<1> QED BY <1>1, <1>2, <1>3

LEMMA WhatIsApplied ==
  ASSUME NEW d \in Clients, NEW e \in StreamEvents, \A i \in DOMAIN d.shown : d.shown[i] = i,
         e.kind = "message" => Ext(e) <= Len(d.shown) + 1, e.kind = "snapshot" => Len(d.shown) <= Ext(e)
  PROVE  LET a == Applied(d, e)
         IN /\ StaysOf(a, d) /\ Concludes(a, e) /\ \A i \in DOMAIN a.shown : a.shown[i] = i
            /\ Len(a.shown) \in Nat /\ Len(d.shown) <= Len(a.shown) /\ Ext(e) <= Len(a.shown)
            /\ Len(a.shown) = Len(d.shown) \/ Len(a.shown) = Ext(e)
<1> DEFINE a == Applied(d, e)
<1>0. /\ e.kind \in {"message", "completed", "read", "snapshot", "accepted", "unavailable"}
      /\ Ext(e) \in Nat /\ e.kind \notin {"message", "snapshot"} => Ext(e) = 0
  BY EventShape
<1>1. Len(d.shown) \in Nat
  BY LenProperties DEF Clients
<1>2. CASE e.kind = "message"
  <2>1. e.body \in [place : Nat \ {0}, own : BOOLEAN] /\ Ext(e) = e.body.place
    BY <1>2 DEF StreamEvents, Ext
  <2>2. a = WithMessage(d, e.body)
    BY <1>2 DEF Applied
  <2>3. /\ StaysOf(a, d) /\ \A i \in DOMAIN a.shown : a.shown[i] = i
        /\ Len(d.shown) <= Len(a.shown) /\ e.body.place <= Len(a.shown)
        /\ Len(a.shown) = Len(d.shown) \/ Len(a.shown) = e.body.place
    BY <1>2, <2>1, <2>2, MessageApplied
  <2>4. Len(a.shown) \in Nat
    BY <2>3, LenProperties DEF StaysOf, Clients
  <2>5. Concludes(a, e)
    BY <1>2 DEF Concludes
  <2> QED BY <2>1, <2>3, <2>4, <2>5
<1>3. CASE e.kind = "snapshot"
  <2>1. e.body \in [shown : Nat, pending : SUBSET Nat, read : ReadBodies] /\ Ext(e) = e.body.shown
    BY <1>3 DEF StreamEvents, Ext
  <2>2. a = WithSnapshot(d, e.body)
    BY <1>3 DEF Applied
  <2>3. StaysOf(a, d) /\ Len(a.shown) = e.body.shown /\ \A i \in DOMAIN a.shown : a.shown[i] = i
    BY <2>1, <2>2, SnapshotApplied
  <2>4. Concludes(a, e)
    BY <1>3 DEF Concludes
  <2> QED BY <1>0, <1>1, <1>3, <2>1, <2>3, <2>4
<1>4. ASSUME StaysOf(a, d), a.shown = d.shown, Concludes(a, e), e.kind \notin {"message", "snapshot"}
      PROVE  /\ StaysOf(a, d) /\ Concludes(a, e) /\ \A i \in DOMAIN a.shown : a.shown[i] = i
             /\ Len(a.shown) \in Nat /\ Len(d.shown) <= Len(a.shown) /\ Ext(e) <= Len(a.shown)
             /\ Len(a.shown) = Len(d.shown) \/ Len(a.shown) = Ext(e)
  <2> HIDE DEF a
  <2>1. Ext(e) = 0
    BY <1>4, EventShape
  <2>3. Len(a.shown) = Len(d.shown)
    BY <1>4
  <2>2. \A i \in DOMAIN a.shown : a.shown[i] = i
    BY <1>4
  <2> QED BY <1>1, <1>4, <2>1, <2>2, <2>3
<1>5. CASE e.kind = "completed"
  <2>1. a = [d EXCEPT !.pending = @ \ {e.body}]
    BY <1>5 DEF Applied
  <2>2. StaysOf(a, d) /\ a.shown = d.shown
    BY <2>1 DEF StaysOf, Clients
  <2> QED BY <1>4, <1>5, <2>2 DEF Concludes
<1>6. CASE e.kind = "read"
  <2>1. a = WithRead(d, e.body) /\ e.body \in ReadBodies
    BY <1>6, EventShape DEF Applied
  <2>2. StaysOf(a, d) /\ a.shown = d.shown
    BY <2>1, ReadApplied
  <2> QED BY <1>4, <1>6, <2>2 DEF Concludes
<1>7. CASE e.kind = "accepted"
  <2>1. a = WithAnswer(d, e)
    BY <1>7 DEF Applied
  <2>2. StaysOf(a, d) /\ a.shown = d.shown /\ Concludes(a, e)
    BY <1>7, <2>1, AnswerApplied
  <2> QED BY <1>4, <1>7, <2>2
<1>8. CASE e.kind = "unavailable"
  <2>1. a = WithRefusal(d, e) /\ e.to \in SyncIds \cup SendIds \cup ReadIds
    BY <1>8, AnswerShape DEF Applied
  <2>2. StaysOf(a, d) /\ a.shown = d.shown
    BY <2>1, RefusalApplied
  <2> QED BY <1>4, <1>8, <2>2 DEF Concludes
<1> QED BY <1>0, <1>2, <1>3, <1>5, <1>6, <1>7, <1>8

\* What is on its way in a chain goes on from where the device is.
LEMMA ChainHead ==
  ASSUME DeviceTypes, LinksInTurn, Following, Active, In # <<>>, Chained(In, client.at)
  PROVE  /\ Placing(client, Head(In)) = "apply" /\ Head(In).ev.kind # "unavailable"
         /\ \/ Head(In).ev.kind = "snapshot"
            \/ Head(In).at = <<client.at[1], client.at[2] + 1>>
<1> DEFINE t == Head(In)
<1>1. In \in Seq(SentEvents) /\ Channel(In, hub, Up, Len(history))
  BY FollowingChannel
<1>2. 1 \in DOMAIN In /\ t = In[1] /\ t \in SentEvents
  <2>1. Len(In) \in Nat /\ Len(In) # 0 /\ DOMAIN In = 1..Len(In)
    BY <1>1, LenProperties, EmptySeq
  <2> QED BY <1>1, <2>1, HeadTailProperties, ElementOfSeq
<1>3. t.ev.kind # "unavailable" /\ (t.ev.kind = "snapshot" \/ t.at = <<client.at[1], client.at[2] + 1>>)
  BY <1>2 DEF Chained
<1>4. t.at[1] # 0
  <2>1. t.at[1] \in 1..hub.epoch
    BY <1>2 DEF Following
  <2> QED BY <2>1
<1>5. client.at \in Positions /\ client.at[1] \in Nat /\ client.at[2] \in Nat
  BY DEF DeviceTypes, Clients, Positions
<1>6. CASE t.ev.kind = "snapshot"
  BY <1>3, <1>6 DEF Placing
<1>7. CASE t.ev.kind # "snapshot"
  <2>1. t.at[1] = client.at[1] /\ t.at[2] = client.at[2] + 1
    BY <1>3, <1>7
  <2>2. client.at # Nowhere
    BY <1>4, <2>1 DEF Nowhere
  <2>3. ~(t.at[2] <= client.at[2])
    BY <1>5, <2>1
  <2> QED BY <1>3, <1>7, <2>1, <2>2, <2>3 DEF Placing
<1> QED BY <1>3, <1>6, <1>7

\* What the device makes of the next event: the place it follows to, and the messages it shows.
LEMMA HeadFollowed ==
  ASSUME DeviceTypes, LinksInTurn, Following, ShowsFirst, Active, In # <<>>
  PROVE  LET t == Head(In)
             a == Followed(client, t)
         IN /\ a \in Clients /\ StaysOf([a EXCEPT !.at = client.at], client)
            /\ \A i \in DOMAIN a.shown : a.shown[i] = i
            /\ Len(a.shown) \in Nat /\ Len(client.shown) <= Len(a.shown) /\ Ext(t.ev) <= Len(a.shown)
            /\ Len(a.shown) = Len(client.shown) \/ Len(a.shown) = Ext(t.ev)
            /\ a.at = t.at \/ (a.at = client.at /\ Len(a.shown) = Len(client.shown))
            /\ Refusals(In) \/ (Chained(In, client.at) /\ a.at = t.at /\ Concludes(a, t.ev))
            /\ Placing(client, t) \in {"skip", "resync"} => a = client
<1> DEFINE t == Head(In)
           a == Followed(client, t)
           d == [client EXCEPT !.at = t.at]
<1>0. /\ In \in Seq(SentEvents) /\ Channel(In, hub, Up, Len(history)) /\ (Refusals(In) \/ Chained(In, client.at))
      /\ Coherent(Bodies(In), 0, Len(client.shown)) /\ Len(client.shown) \in Nat
  BY FollowingChannel
<1>1. /\ 1 \in DOMAIN In /\ t = In[1] /\ t \in SentEvents
      /\ Len(In) \in Nat /\ Len(In) # 0 /\ DOMAIN In = 1..Len(In)
  <2>1. Len(In) \in Nat /\ Len(In) # 0 /\ DOMAIN In = 1..Len(In)
    BY <1>0, LenProperties, EmptySeq
  <2> QED BY <1>0, <2>1, HeadTailProperties, ElementOfSeq
<1>2. t.at \in Positions /\ t.ev \in StreamEvents /\ client \in Clients
  BY <1>1 DEF SentEvents, DeviceTypes
<1>3. \A i \in DOMAIN client.shown : client.shown[i] = i
  BY DEF ShowsFirst, ShownInOrder
<1>4. /\ t.ev.kind = "message" => Ext(t.ev) <= Len(client.shown) + 1
      /\ t.ev.kind = "snapshot" => Len(client.shown) <= Ext(t.ev)
  <2>1. Len(Bodies(In)) = Len(In) /\ Bodies(In)[1] = t.ev
    BY <1>0, <1>1, BodiesOfTexts
  <2>2. 1 \in (0 + 1)..Len(Bodies(In)) /\ ~ \E u \in (0 + 1)..(1 - 1) : TRUE
    BY <1>1, <2>1
  <2> QED BY <1>0, <2>1, <2>2 DEF Coherent
<1>5. d \in Clients /\ d.shown = client.shown /\ StaysOf([d EXCEPT !.at = client.at], client)
  BY <1>2 DEF StaysOf, Clients
<1>6. Refusals(In) => t.ev.kind = "unavailable" /\ Ext(t.ev) = 0
  BY <1>1, <1>2, EventShape DEF Refusals
<1>7. ASSUME NEW b \in Clients, b.shown = client.shown
      PROVE  /\ StaysOf(Applied(b, t.ev), b) /\ Concludes(Applied(b, t.ev), t.ev)
             /\ \A i \in DOMAIN Applied(b, t.ev).shown : Applied(b, t.ev).shown[i] = i
             /\ Len(Applied(b, t.ev).shown) \in Nat /\ Len(client.shown) <= Len(Applied(b, t.ev).shown)
             /\ Ext(t.ev) <= Len(Applied(b, t.ev).shown)
             /\ Len(Applied(b, t.ev).shown) = Len(client.shown) \/ Len(Applied(b, t.ev).shown) = Ext(t.ev)
  BY <1>2, <1>3, <1>4, <1>7, WhatIsApplied
<1>8. CASE Placing(client, t) = "apply"
  <2>1. a = Applied(d, t.ev)
    BY <1>8 DEF Followed
  <2> HIDE DEF a, d, t
  <2>2. /\ StaysOf(a, d) /\ Concludes(a, t.ev)
        /\ \A i \in DOMAIN a.shown : a.shown[i] = i
        /\ Len(a.shown) \in Nat /\ Len(client.shown) <= Len(a.shown) /\ Ext(t.ev) <= Len(a.shown)
        /\ Len(a.shown) = Len(client.shown) \/ Len(a.shown) = Ext(t.ev)
    BY <1>5, <1>7, <2>1
  <2>3. a.at = t.at
    BY <2>2, <1>2 DEF StaysOf, d, Clients
  <2>4. StaysOf([a EXCEPT !.at = client.at], client)
    <3>1. a \in Clients /\ client.at \in Positions
      BY <1>2, <2>2 DEF StaysOf, Clients
    <3>2. /\ a.kind = d.kind /\ a.phase = d.phase /\ a.conn = d.conn /\ a.asked = d.asked /\ a.syncs = d.syncs
          /\ a.tries = d.tries /\ a.reads \subseteq d.reads /\ \A r \in Requests : a.sent[r] = "sending" => d.sent[r] = "sending"
      BY <2>2 DEF StaysOf
    <3>3. /\ d.kind = client.kind /\ d.phase = client.phase /\ d.conn = client.conn /\ d.asked = client.asked
          /\ d.syncs = client.syncs /\ d.tries = client.tries /\ d.reads = client.reads /\ d.sent = client.sent
      BY <1>2 DEF d, Clients
    <3>4. [a EXCEPT !.at = client.at] \in Clients
      BY <3>1 DEF Clients
    <3>5. LET g == [a EXCEPT !.at = client.at]
          IN /\ g.kind = a.kind /\ g.phase = a.phase /\ g.conn = a.conn /\ g.at = client.at /\ g.asked = a.asked
             /\ g.syncs = a.syncs /\ g.tries = a.tries /\ g.reads = a.reads /\ g.sent = a.sent
      BY <3>1 DEF Clients
    <3> QED BY <3>2, <3>3, <3>4, <3>5 DEF StaysOf
  <2>5. a \in Clients
    BY <2>2 DEF StaysOf
  <2>6. Refusals(In) \/ (Chained(In, client.at) /\ a.at = t.at /\ Concludes(a, t.ev))
    BY <1>0, <2>2, <2>3
  <2> QED BY <1>8, <2>2, <2>3, <2>4, <2>5, <2>6 DEF a, t
<1>9. CASE Placing(client, t) # "apply"
  <2>1. Refusals(In)
    BY <1>0, <1>9, ChainHead
  <2>2. Ext(t.ev) = 0
    BY <1>6, <2>1
  <2>3. [client EXCEPT !.at = client.at] = client /\ StaysOf(client, client)
    BY <1>2 DEF StaysOf, Clients
  <2>4. CASE Placing(client, t) = "moment"
    <3>1. a = Applied(client, t.ev)
      BY <2>4 DEF Followed
    <3> HIDE DEF a, d, t
    <3>2. /\ StaysOf(a, client)
          /\ \A i \in DOMAIN a.shown : a.shown[i] = i
          /\ Len(a.shown) \in Nat /\ Len(client.shown) <= Len(a.shown) /\ Ext(t.ev) <= Len(a.shown)
          /\ Len(a.shown) = Len(client.shown) \/ Len(a.shown) = Ext(t.ev)
      BY <1>2, <1>7, <3>1
    <3>3. Len(a.shown) = Len(client.shown)
      BY <1>0, <2>2, <3>2
    <3>4. a.at = client.at /\ a \in Clients
      BY <3>2 DEF StaysOf
    <3>5. [a EXCEPT !.at = client.at] = a
      BY <3>4 DEF Clients
    <3> QED BY <2>1, <2>4, <3>2, <3>3, <3>4, <3>5 DEF a, t
  <2>5. CASE Placing(client, t) # "moment"
    <3>1. a = client
      BY <1>9, <2>5 DEF Followed
    <3> QED BY <1>0, <1>2, <1>3, <2>1, <2>2, <2>3, <3>1
  <2> QED BY <2>4, <2>5
<1> QED BY <1>8, <1>9

\* What the device has heard, and what it answers.
Receives(d, ms) ==
  /\ client' = d
  /\ link' = [[link EXCEPT ![client.conn].in = Tail(@)] EXCEPT ![client.conn].out = @ \o ms]
  /\ history' = history /\ over' = over /\ readTo' = readTo /\ hub' = hub

\* The device goes on from what it has followed.
FollowsOn(d, ms) ==
  LET t == Head(In)
      a == Followed(client, t)
  IN /\ d \in Clients /\ d.kind = a.kind /\ d.conn = a.conn /\ d.at = a.at /\ d.shown = a.shown
     /\ d.sent = a.sent /\ d.reads = a.reads
     /\ d.phase \in {"syncing", "ready", "unavailable"}
     /\ ms \in Seq(Commands) /\ \A i \in DOMAIN ms : ms[i].kind = "sync" => ms[i].body = Nowhere
     /\ d.phase = "ready" =>
          client.phase = "ready" \/ (t.ev.kind \in {"snapshot", "accepted"} /\ ms = Unsent(a))

LEMMA ReceivedLinks ==
  ASSUME DeviceTypes, LinksInTurn, Following, Active, In # <<>>, NEW d, NEW ms \in Seq(Commands), Receives(d, ms),
         d.conn = client.conn
  PROVE  LET c == client.conn
         IN /\ c \in Links /\ link' \in [Links -> LinkStates]
            /\ In' = Tail(In) /\ Out' = Out \o ms /\ Up' = Up
            /\ link'[c].bound = link[c].bound /\ link'[c].heard = link[c].heard /\ link'[c].up = link[c].up
            /\ \A k \in Links : /\ link'[k].bound = link[k].bound /\ link'[k].up = link[k].up
                                /\ k # c => link'[k] = link[k]
            /\ In \in Seq(SentEvents) /\ Tail(In) \in Seq(SentEvents) /\ Len(Tail(In)) = Len(In) - 1
            /\ Len(In) \in Nat /\ Len(In) # 0 /\ \A i \in 1..Len(Tail(In)) : Tail(In)[i] = In[i + 1]
            /\ DOMAIN In = 1..Len(In) /\ DOMAIN Tail(In) = 1..Len(Tail(In)) /\ Head(In) = In[1]
<1> DEFINE c == client.conn
<1>1. c \in Links /\ In \in Seq(SentEvents) /\ Out \in Seq(Commands) /\ link[c] \in LinkStates
  BY FollowingChannel
<1>2. /\ Tail(In) \in Seq(SentEvents) /\ Len(Tail(In)) = Len(In) - 1 /\ Head(In) = In[1]
      /\ \A i \in 1..Len(Tail(In)) : Tail(In)[i] = In[i + 1]
      /\ Len(In) \in Nat /\ Len(In) # 0 /\ DOMAIN In = 1..Len(In)
  BY <1>1, HeadTailProperties, LenProperties, EmptySeq
<1>3. DOMAIN Tail(In) = 1..Len(Tail(In))
  BY <1>2, LenProperties
<1>4. Out \o ms \in Seq(Commands)
  BY <1>1, Joined
<1>5. link \in [Links -> LinkStates] /\ In = link[c].in /\ Out = link[c].out
  BY DEF DeviceTypes, In, Out
<1> DEFINE q == Out \o ms
           r == Tail(In)
           x == [link[c] EXCEPT !.in = r, !.out = q]
<1>6. link' = [link EXCEPT ![c] = x]
  BY <1>1, <1>5 DEF Receives
<1>7. /\ x \in LinkStates /\ x.in = r /\ x.out = q /\ x.up = link[c].up /\ x.bound = link[c].bound /\ x.heard = link[c].heard
  <2>1. q \in Seq(Commands) /\ r \in Seq(SentEvents)
    BY <1>2, <1>4
  <2> HIDE DEF q, r
  <2> QED BY <1>1, <2>1 DEF LinkStates
<1> HIDE DEF x, q, r
<1>8. /\ link' \in [Links -> LinkStates] /\ link'[c] = x /\ \A k \in Links : k # c => link'[k] = link[k]
  BY <1>1, <1>5, <1>6, <1>7
<1>9. client'.conn = c
  BY DEF Receives
<1>10. In' = r /\ Out' = q /\ Up' = Up
  BY <1>7, <1>8, <1>9 DEF In, Out, Up
<1>11. \A k \in Links : link'[k].bound = link[k].bound /\ link'[k].up = link[k].up
  BY <1>7, <1>8
<1> QED BY <1>1, <1>2, <1>3, <1>7, <1>8, <1>10, <1>11 DEF q, r

\* The rest of the channel goes on from what was followed.
LEMMA RestFollows ==
  ASSUME NEW in \in Seq(SentEvents), in # <<>>, NEW at, NEW to, Refusals(in) \/ (Chained(in, at) /\ to = Head(in).at)
  PROVE  /\ Refusals(Tail(in)) \/ Chained(Tail(in), to)
         /\ ~Refusals(in) => Reached(Tail(in), to) = Reached(in, at)
<1>1. /\ Tail(in) \in Seq(SentEvents) /\ Len(Tail(in)) = Len(in) - 1 /\ Head(in) = in[1]
      /\ \A i \in 1..Len(Tail(in)) : Tail(in)[i] = in[i + 1]
      /\ Len(in) \in Nat /\ Len(in) # 0 /\ DOMAIN in = 1..Len(in)
  BY HeadTailProperties, LenProperties, EmptySeq
<1>2. DOMAIN Tail(in) = 1..Len(Tail(in))
  BY <1>1, LenProperties
<1>3. ASSUME NEW i \in DOMAIN Tail(in) PROVE i + 1 \in DOMAIN in /\ Tail(in)[i] = in[i + 1] /\ i \in Nat \ {0}
  BY <1>1, <1>2
<1>4. Refusals(in) => Refusals(Tail(in))
  BY <1>3 DEF Refusals
<1>5. ASSUME Chained(in, at), to = Head(in).at
      PROVE  Chained(Tail(in), to) /\ Reached(Tail(in), to) = Reached(in, at)
  <2>1. ASSUME NEW i \in DOMAIN Tail(in)
        PROVE  /\ Tail(in)[i].ev.kind # "unavailable"
               /\ \/ Tail(in)[i].ev.kind = "snapshot"
                  \/ Tail(in)[i].at = <<(IF i = 1 THEN to ELSE Tail(in)[i - 1].at)[1], (IF i = 1 THEN to ELSE Tail(in)[i - 1].at)[2] + 1>>
    <3>1. i + 1 \in DOMAIN in /\ Tail(in)[i] = in[i + 1] /\ i \in Nat \ {0} /\ i + 1 # 1 /\ (i + 1) - 1 = i
      BY <1>3
    <3>2. /\ in[i + 1].ev.kind # "unavailable"
          /\ \/ in[i + 1].ev.kind = "snapshot"
             \/ in[i + 1].at = <<in[i].at[1], in[i].at[2] + 1>>
      BY <1>5, <3>1 DEF Chained
    <3>3. CASE i = 1
      BY <1>1, <1>5, <3>1, <3>2, <3>3
    <3>4. CASE i # 1
      <4>1. i - 1 \in DOMAIN Tail(in) /\ (i - 1) + 1 = i
        BY <1>1, <1>2, <3>1, <3>4
      <4>2. Tail(in)[i - 1] = in[i]
        BY <1>3, <4>1
      <4> QED BY <3>1, <3>2, <3>4, <4>2
    <3> QED BY <3>3, <3>4
  <2>2. Chained(Tail(in), to)
    BY <2>1 DEF Chained
  <2>3. Reached(Tail(in), to) = Reached(in, at)
    <3>1. CASE Tail(in) = <<>>
      <4> DEFINE q == Tail(in)
      <4>1. Len(q) = Len(in) - 1 /\ Len(in) \in Nat
        BY <1>1
      <4>4. q = <<>>
        BY <3>1
      <4> HIDE DEF q
      <4>2. Len(q) = 0
        BY <4>4, EmptySeq
      <4>3. Len(in) = 1
        BY <4>1, <4>2
      <4> QED BY <1>1, <1>5, <3>1, <4>3 DEF Reached
    <3>2. CASE Tail(in) # <<>>
      <4>1. Len(Tail(in)) # 0 /\ Len(Tail(in)) \in Nat
        BY <1>1, <3>2, EmptySeq, LenProperties
      <4>2. Len(Tail(in)) \in 1..Len(Tail(in)) /\ Len(Tail(in)) + 1 = Len(in)
        BY <1>1, <4>1
      <4>3. Tail(in)[Len(Tail(in))] = in[Len(in)]
        BY <1>1, <4>2
      <4> QED BY <3>2, <4>3 DEF Reached
    <3> QED BY <3>1, <3>2
  <2> QED BY <2>2, <2>3
<1> QED BY <1>4, <1>5

LEMMA ReceivedFollowing ==
  ASSUME DeviceTypes, LinksInTurn, Following, ShowsFirst, Active, In # <<>>,
         NEW d, NEW ms, FollowsOn(d, ms), Receives(d, ms)
  PROVE  Following' /\ ShowsFirst'
<1> DEFINE c == client.conn
           t == Head(In)
           a == Followed(client, t)
           k == Len(client.shown)
           k2 == Len(a.shown)
           H == Len(history)
<1>1. /\ In \in Seq(SentEvents) /\ Out \in Seq(Commands) /\ Channel(In, hub, Up, H)
      /\ (Refusals(In) \/ Chained(In, client.at)) /\ Coherent(Bodies(In), 0, k) /\ k \in Nat /\ H \in Nat
  BY FollowingChannel
<1>2. /\ d \in Clients /\ d.conn = c /\ d.at = a.at /\ d.shown = a.shown /\ d.kind = client.kind
      /\ ms \in Seq(Commands) /\ \A i \in DOMAIN ms : ms[i].kind = "sync" => ms[i].body = Nowhere
  <2>1. a.conn = c /\ a.kind = client.kind
    <3>1. a \in Clients /\ StaysOf([a EXCEPT !.at = client.at], client)
      BY HeadFollowed
    <3> HIDE DEF a
    <3> QED BY <3>1 DEF StaysOf, Clients
  <2> QED BY <2>1 DEF FollowsOn
<1>3. /\ c \in Links /\ link' \in [Links -> LinkStates]
      /\ In' = Tail(In) /\ Out' = Out \o ms /\ Up' = Up
      /\ link'[c].bound = link[c].bound
      /\ Tail(In) \in Seq(SentEvents) /\ Len(Tail(In)) = Len(In) - 1
      /\ Len(In) \in Nat /\ Len(In) # 0 /\ \A i \in 1..Len(Tail(In)) : Tail(In)[i] = In[i + 1]
      /\ DOMAIN In = 1..Len(In) /\ DOMAIN Tail(In) = 1..Len(Tail(In)) /\ t = In[1]
  BY <1>2, ReceivedLinks
<1>4. /\ \A i \in DOMAIN a.shown : a.shown[i] = i
      /\ k2 \in Nat /\ k <= k2 /\ Ext(t.ev) <= k2 /\ (k2 = k \/ k2 = Ext(t.ev))
      /\ a.at = t.at \/ (a.at = client.at /\ k2 = k)
      /\ Refusals(In) \/ (Chained(In, client.at) /\ a.at = t.at)
  BY HeadFollowed
<1>5. client' = d /\ hub' = hub /\ history' = history
  BY DEF Receives
<1> HIDE DEF a, t, c
<1>6. 1 \in DOMAIN In /\ t.at[1] \in 1..hub.epoch /\ Ext(t.ev) <= H
  BY <1>1, <1>3 DEF Channel
<1>7. ShowsFirst'
  <2>1. k2 <= H
    BY <1>4, <1>6 DEF ShowsFirst
  <2> QED BY <1>2, <1>4, <1>5, <2>1 DEF ShowsFirst, ShownInOrder
<1>8. d.at[1] <= hub.epoch
  <2>1. client.at[1] <= hub.epoch
    BY DEF Following
  <2>2. t.at[1] <= hub.epoch
    BY <1>6 DEF DeviceTypes, Hubs
  <2> QED BY <1>2, <1>4, <2>1, <2>2
<1>9. Channel(Tail(In), hub, Up, H)
  <2>1. ASSUME NEW i \in DOMAIN Tail(In) PROVE i + 1 \in DOMAIN In /\ Tail(In)[i] = In[i + 1]
    BY <1>3
  <2> QED BY <1>1, <2>1 DEF Channel
<1>10. Refusals(Tail(In)) \/ Chained(Tail(In), d.at)
  BY <1>1, <1>2, <1>4, RestFollows DEF t
<1>11. /\ Coherent(Bodies(Tail(In)), 0, k2)
       /\ Complete(Bodies(In), 0, k, H, hub.owed) => Complete(Bodies(Tail(In)), 0, k2, H, hub.owed)
  <2> DEFINE S == Bodies(In)
             T == Bodies(Tail(In))
  <2>1. /\ S \in Seq(StreamEvents) /\ Len(S) = Len(In) /\ \A i \in 1..Len(In) : S[i] = In[i].ev
        /\ T \in Seq(StreamEvents) /\ Len(T) = Len(Tail(In)) /\ \A i \in 1..Len(Tail(In)) : T[i] = Tail(In)[i].ev
    BY <1>1, <1>3, BodiesOfTexts
  <2>2. Coherent(S, 0, k)
    BY <1>1
  <2> HIDE DEF S, T
  <2>3. ASSUME NEW i \in 1..Len(T) PROVE T[i] = S[i + 1]
    <3>1. i \in 1..Len(Tail(In)) /\ i + 1 \in 1..Len(In)
      BY <1>3, <2>1
    <3> QED BY <1>3, <2>1, <3>1
  <2>4. Ext(S[0 + 1]) = Ext(t.ev) /\ 0 < Len(S) /\ 0 \in Nat /\ Len(S) # 0 /\ Len(T) = Len(S) - 1 /\ S # <<>>
    BY <1>3, <2>1
  <2>5. Ext(S[0 + 1]) <= k2 /\ (k2 = k \/ k2 = Ext(S[0 + 1]))
    BY <1>4, <2>4
  <2>6. /\ Coherent(S, 0, k) => Coherent(S, 0 + 1, k2)
        /\ H \in Nat /\ Complete(S, 0, k, H, hub.owed) => Complete(S, 0 + 1, k2, H, hub.owed)
    <3> HIDE DEF k2, k, H
    <3> QED BY <1>1, <1>4, <2>1, <2>4, <2>5, LeadsTaken
  <2>7. 0 + 1 = 1
    OBVIOUS
  <2>8. /\ Coherent(S, 1, k2) => Coherent(T, 0, k2)
        /\ Complete(S, 1, k2, H, hub.owed) => Complete(T, 0, k2, H, hub.owed)
    <3> HIDE DEF k2, H
    <3> QED BY <1>4, <2>1, <2>3, <2>4, LeadsInTail
  <2> QED BY <1>1, <2>2, <2>6, <2>7, <2>8 DEF S, T
<1>12. \A i \in DOMAIN Out' : Out'[i].kind = "sync" => Out'[i].body = Nowhere
  <2>1. \A i \in DOMAIN Out : Out[i].kind = "sync" => Out[i].body = Nowhere
    BY DEF Following
  <2>2. Len(Out) \in Nat /\ Len(ms) \in Nat /\ Len(Out \o ms) = Len(Out) + Len(ms) /\ Out \o ms \in Seq(Commands)
    BY <1>1, <1>2, Joined
  <2>3. \A i \in 1..Len(Out) : (Out \o ms)[i] = Out[i]
    BY <1>1, <1>2, Joined
  <2>4. \A i \in (Len(Out) + 1)..(Len(Out) + Len(ms)) : (Out \o ms)[i] = ms[i - Len(Out)]
    BY <1>1, <1>2, Joined
  <2>5. DOMAIN Out = 1..Len(Out) /\ DOMAIN ms = 1..Len(ms) /\ DOMAIN (Out \o ms) = 1..(Len(Out) + Len(ms))
    BY <1>1, <1>2, <2>2, LenProperties
  <2> SUFFICES ASSUME NEW i \in DOMAIN (Out \o ms), (Out \o ms)[i].kind = "sync" PROVE (Out \o ms)[i].body = Nowhere
    BY <1>3
  <2>6. CASE i <= Len(Out)
    <3>1. i \in 1..Len(Out)
      BY <2>2, <2>5, <2>6
    <3> QED BY <2>1, <2>3, <2>5, <3>1
  <2>7. CASE ~(i <= Len(Out))
    <3>1. i \in (Len(Out) + 1)..(Len(Out) + Len(ms)) /\ i - Len(Out) \in 1..Len(ms)
      BY <2>2, <2>5, <2>7
    <3> QED BY <1>2, <2>4, <2>5, <3>1
  <2> QED BY <2>6, <2>7
<1>13. Live' => Live
  BY <1>2, <1>3, <1>5 DEF Live, Able, c
<1>14. ASSUME Live
       PROVE  /\ Reached(Tail(In), d.at) = <<hub.epoch, hub.last>>
              /\ Complete(Bodies(Tail(In)), 0, k2, H, hub.owed)
  <2>1. Reached(In, client.at) = <<hub.epoch, hub.last>> /\ Complete(Bodies(In), 0, k, H, hub.owed)
    BY <1>14 DEF Following
  <2>2. ~Refusals(In)
    <3>1. t.at[1] = hub.epoch /\ Able
      BY <1>1, <1>3, <1>6, <1>14 DEF Channel, Live
    <3>2. t.ev.kind # "unavailable"
      BY <1>1, <1>3, <1>6, <3>1 DEF Channel, Able
    <3> QED BY <1>3, <1>6, <3>2 DEF Refusals
  <2>3. Reached(Tail(In), d.at) = Reached(In, client.at)
    <3>1. Refusals(In) \/ (Chained(In, client.at) /\ d.at = Head(In).at)
      BY <1>2, <1>4 DEF t
    <3>2. In # <<>>
      OBVIOUS
    <3> QED BY <1>1, <2>2, <3>1, <3>2, RestFollows
  <2> QED BY <1>11, <2>1, <2>3
<1>15. Following'
  <2>1. Bodies(In') = Bodies(Tail(In)) /\ Len(client'.shown) = k2 /\ client'.at = d.at
    BY <1>2, <1>3, <1>5
  <2>2. \A i \in DOMAIN In' :
          /\ In'[i].at[1] \in 1..hub.epoch /\ Ext(In'[i].ev) <= H
          /\ In'[i].at[1] = hub.epoch => (In'[i].ev.kind = "unavailable" <=> ~Able)
          /\ Up' = "open" => In'[i].at[1] = hub.epoch
    BY <1>3, <1>9 DEF Channel, Able
  <2>3. (Able' <=> Able)
    BY <1>5 DEF Able
  <2>4. client'.at[1] <= hub'.epoch
    BY <1>5, <1>8, <2>1
  <2>5. /\ \A i \in DOMAIN In' :
            /\ In'[i].at[1] \in 1..hub'.epoch /\ Ext(In'[i].ev) <= Len(history')
            /\ In'[i].at[1] = hub'.epoch => (In'[i].ev.kind = "unavailable" <=> ~Able')
            /\ Up' = "open" => In'[i].at[1] = hub'.epoch
    BY <1>5, <2>2, <2>3
  <2>6. Refusals(In') \/ Chained(In', client'.at)
    BY <1>3, <1>10, <2>1
  <2>7. Coherent(Bodies(In'), 0, Len(client'.shown))
    BY <1>11, <2>1
  <2>8. \A i \in DOMAIN Out' : Out'[i].kind = "sync" /\ Out'[i].body # Nowhere =>
            i = 1 /\ Out'[i].body = client'.at /\ ~link'[client'.conn].bound /\ In' = <<>>
    BY <1>12
  <2>9. Live' => /\ Reached(In', client'.at) = <<hub'.epoch, hub'.last>>
                 /\ Complete(Bodies(In'), 0, Len(client'.shown), Len(history'), hub'.owed)
    BY <1>3, <1>5, <1>13, <1>14, <2>1
  <2> HIDE DEF k2
  <2> QED BY <2>4, <2>5, <2>6, <2>7, <2>8, <2>9 DEF Following
<1> QED BY <1>7, <1>15

LEMMA ReceivedStream ==
  ASSUME DeviceTypes, LinksInTurn, Following, ShowsFirst, StreamLeads, Active, In # <<>>,
         NEW d, NEW ms, FollowsOn(d, ms), Receives(d, ms), d.conn = client.conn
  PROVE  StreamLeads'
<1> DEFINE t == Head(In)
           a == Followed(client, t)
           k == Len(client.shown)
           k2 == Len(a.shown)
           H == Len(history)
           s == client.at[2]
<1>0. PICK full \in Seq(StreamEvents) : StreamOf(full)
  BY DEF StreamLeads
<1>1. In \in Seq(SentEvents) /\ Channel(In, hub, Up, H) /\ k \in Nat /\ H \in Nat
  BY FollowingChannel
<1>2. d.at = a.at /\ d.shown = a.shown /\ ms \in Seq(Commands)
  BY DEF FollowsOn
<1>3. /\ In' = Tail(In)
      /\ Len(Tail(In)) = Len(In) - 1
      /\ Len(In) \in Nat /\ Len(In) # 0 /\ \A i \in 1..Len(Tail(In)) : Tail(In)[i] = In[i + 1]
      /\ DOMAIN In = 1..Len(In) /\ DOMAIN Tail(In) = 1..Len(Tail(In)) /\ t = In[1]
  BY <1>2, ReceivedLinks
<1>4. /\ k2 \in Nat /\ k <= k2 /\ Ext(t.ev) <= k2 /\ (k2 = k \/ k2 = Ext(t.ev))
      /\ a.at = t.at \/ (a.at = client.at /\ k2 = k)
  BY HeadFollowed
<1>5. client' = d /\ hub' = hub /\ history' = history
  BY DEF Receives
<1>6. Chained(In, client.at) => (t.ev.kind = "snapshot" \/ t.at = <<client.at[1], client.at[2] + 1>>)
  BY ChainHead
<1>7. Refusals(In) \/ Chained(In, client.at)
  BY DEF Following
<1>8. hub.last \in Nat /\ hub.epoch \in Nat /\ s \in Nat /\ client.at[1] \in Nat /\ Len(full) = hub.last
  BY <1>0 DEF DeviceTypes, Hubs, Clients, Positions, StreamOf
<1>9. Ext(t.ev) \in Nat
  <2>1. In[1] \in SentEvents
    BY <1>1, <1>3, ElementOfSeq
  <2>2. t.ev \in StreamEvents
    BY <1>3, <2>1 DEF SentEvents
  <2> QED BY <2>2, EventShape
<1> HIDE DEF a, t
<1>10. ASSUME Able, d.at[1] = hub.epoch
       PROVE  d.at[2] <= hub.last /\ Leads(full, d.at[2], k2, H, hub.owed)
  <2>1. CASE a.at = client.at /\ k2 = k
    <3>1. client.at[2] <= hub.last /\ Leads(full, client.at[2], k, H, hub.owed)
      BY <1>0, <1>2, <1>10, <2>1 DEF StreamOf
    <3> QED BY <1>2, <2>1, <3>1
  <2>2. CASE a.at = t.at
    <3>1. 1 \in DOMAIN In /\ In[1].at[1] = hub.epoch
      BY <1>2, <1>3, <1>10, <2>2
    <3>2. t.at[2] \in 1..hub.last /\ t.ev = full[t.at[2]]
          /\ (t.ev.kind = "snapshot" => Leads(full, t.at[2], Ext(t.ev), H, hub.owed))
      BY <1>0, <1>3, <1>10, <3>1 DEF StreamOf
    <3>3. t.ev.kind # "unavailable"
      BY <1>1, <1>3, <1>10, <3>1 DEF Channel, Able
    <3>4. t.ev.kind = "snapshot" \/ t.at = <<client.at[1], client.at[2] + 1>>
      BY <1>3, <1>6, <1>7, <3>1, <3>3 DEF Refusals
    <3>5. CASE t.ev.kind = "snapshot"
      <4>1. k <= Ext(t.ev)
        <5>1. Bodies(In)[1] = t.ev /\ Len(Bodies(In)) = Len(In)
          BY <1>1, <1>3, <3>1, BodiesOfTexts
        <5>2. 1 \in (0 + 1)..Len(Bodies(In))
          BY <1>3, <5>1
        <5>3. Coherent(Bodies(In), 0, k)
          BY DEF Following
        <5> QED BY <3>5, <5>1, <5>2, <5>3 DEF Coherent
      <4>2. k2 = Ext(t.ev)
        <5> HIDE DEF k, k2
        <5> QED BY <1>1, <1>4, <1>9, <4>1
      <4> QED BY <1>2, <1>8, <2>2, <3>2, <3>5, <4>2
    <3>6. CASE t.ev.kind # "snapshot"
      <4>1. t.at[1] = client.at[1] /\ t.at[2] = s + 1
        BY <3>4, <3>6
      <4>2. s < Len(full) /\ t.ev = full[s + 1]
        BY <1>8, <3>2, <4>1
      <4>3. Leads(full, s, k, H, hub.owed)
        BY <1>0, <1>2, <1>10, <2>2, <4>1 DEF StreamOf
      <4>4. Ext(full[s + 1]) <= k2 /\ (k2 = k \/ k2 = Ext(full[s + 1]))
        BY <1>4, <4>2
      <4>5. /\ Coherent(full, s, k) => Coherent(full, s + 1, k2)
            /\ H \in Nat /\ Complete(full, s, k, H, hub.owed) => Complete(full, s + 1, k2, H, hub.owed)
        <5> HIDE DEF k, k2, H, s
        <5> QED BY <1>1, <1>4, <1>8, <4>2, <4>4, LeadsTaken
      <4>6. Leads(full, s + 1, k2, H, hub.owed)
        BY <1>1, <4>3, <4>5 DEF Leads
      <4> QED BY <1>2, <1>8, <2>2, <3>2, <4>1, <4>6
    <3> QED BY <3>5, <3>6
  <2> QED BY <1>4, <2>1, <2>2
<1>11. ASSUME Able, NEW i \in DOMAIN In', In'[i].at[1] = hub.epoch
       PROVE  /\ In'[i].at[2] \in 1..hub.last /\ In'[i].ev = full[In'[i].at[2]]
              /\ In'[i].ev.kind = "snapshot" => Leads(full, In'[i].at[2], Ext(In'[i].ev), H, hub.owed)
  <2>1. i + 1 \in DOMAIN In /\ In'[i] = In[i + 1]
    BY <1>3
  <2> QED BY <1>0, <1>11, <2>1 DEF StreamOf
<1>12. StreamOf(full)'
  <2>1. (Able' <=> Able)
    BY <1>5 DEF Able
  <2>2. Able' /\ client'.at[1] = hub'.epoch =>
          /\ client'.at[2] <= hub'.last
          /\ Leads(full, client'.at[2], Len(client'.shown), Len(history'), hub'.owed)
    BY <1>2, <1>5, <1>10, <2>1
  <2>3. Able' /\ Active' => \A i \in DOMAIN In' : In'[i].at[1] = hub'.epoch =>
          /\ In'[i].at[2] \in 1..hub'.last /\ In'[i].ev = full[In'[i].at[2]]
          /\ In'[i].ev.kind = "snapshot" => Leads(full, In'[i].at[2], Ext(In'[i].ev), Len(history'), hub'.owed)
    BY <1>5, <1>11, <2>1
  <2>4. /\ Len(full) = hub'.last /\ Len(hub'.log) <= hub'.last
        /\ \A i \in 1..Len(hub'.log) : hub'.log[i] = full[hub'.last - Len(hub'.log) + i]
        /\ \A q \in 1..hub'.last : Ext(full[q]) <= Len(history') /\ (full[q].kind = "unavailable" <=> ~Able')
    BY <1>0, <1>5, <2>1 DEF StreamOf
  <2> QED BY <2>2, <2>3, <2>4 DEF StreamOf
<1> QED BY <1>12 DEF StreamLeads

\* What the device sends is under way, as what was and is not answered now.
LEMMA ReceivedOnTheWay ==
  ASSUME DeviceTypes, LinksInTurn, Following, ShowsFirst, Active, In # <<>>,
         NEW d, NEW ms, FollowsOn(d, ms), Receives(d, ms), d.conn = client.conn, Serving',
         NEW id, (client.phase = "ready" => UnderWay(id)),
         Concludes(Followed(client, Head(In)), Head(In).ev) => Head(In).ev.to # id,
         ms = Unsent(Followed(client, Head(In))) => \E i \in DOMAIN ms : ms[i].id = id
  PROVE  UnderWay(id)'
<1> DEFINE c == client.conn
           t == Head(In)
<1>1. /\ c \in Links /\ In' = Tail(In) /\ Out' = Out \o ms
      /\ Up' = Up /\ link'[c].bound = link[c].bound
      /\ Len(Tail(In)) = Len(In) - 1
      /\ Len(In) \in Nat /\ Len(In) # 0 /\ \A i \in 1..Len(Tail(In)) : Tail(In)[i] = In[i + 1]
      /\ DOMAIN In = 1..Len(In) /\ DOMAIN Tail(In) = 1..Len(Tail(In)) /\ t = In[1]
  BY ReceivedLinks DEF FollowsOn
<1>2. ms \in Seq(Commands) /\ Out \in Seq(Commands) /\ In \in Seq(SentEvents)
      /\ Channel(In, hub, Up, Len(history)) /\ (Refusals(In) \/ Chained(In, client.at))
  BY FollowingChannel DEF FollowsOn
<1>3. client' = d /\ hub' = hub /\ d.conn = c
  BY DEF Receives
<1>4. Len(Out) \in Nat /\ Len(ms) \in Nat /\ Len(Out \o ms) = Len(Out) + Len(ms) /\ Out \o ms \in Seq(Commands)
  BY <1>2, Joined
<1>5. \A i \in 1..Len(Out) : (Out \o ms)[i] = Out[i]
  BY <1>2, Joined
<1>6. \A i \in 1..Len(ms) : (Out \o ms)[Len(Out) + i] = ms[i]
  BY <1>2, Joined
<1>7. DOMAIN Out = 1..Len(Out) /\ DOMAIN ms = 1..Len(ms) /\ DOMAIN Out' = 1..(Len(Out) + Len(ms))
  BY <1>1, <1>2, <1>4, LenProperties
<1>8. ASSUME NEW i \in DOMAIN ms, ms[i].id = id PROVE UnderWay(id)'
  <2>1. Len(Out) + i \in DOMAIN Out' /\ i \in 1..Len(ms)
    BY <1>4, <1>7
  <2>2. Out'[Len(Out) + i].id = id
    BY <1>1, <1>6, <1>8, <2>1
  <2> QED BY <2>1, <2>2 DEF UnderWay, Out
<1>9. CASE ms = Unsent(Followed(client, t))
  BY <1>8, <1>9
<1>10. CASE ~(ms = Unsent(Followed(client, t)))
  <2>1. client.phase = "ready"
    BY <1>3, <1>10 DEF FollowsOn, Serving
  <2>2. UnderWay(id)
    BY <2>1
  <2>3. CASE \E i \in DOMAIN Out : Out[i].id = id
    <3>1. PICK i \in DOMAIN Out : Out[i].id = id
      BY <2>3
    <3>2. i \in DOMAIN Out' /\ i \in 1..Len(Out)
      BY <1>4, <1>7
    <3>3. Out'[i].id = id
      BY <1>1, <1>5, <3>1, <3>2
    <3> QED BY <3>2, <3>3 DEF UnderWay, Out
  <2>4. CASE \E i \in DOMAIN In : In[i].ev.to = id
    <3>1. PICK i \in DOMAIN In : In[i].ev.to = id
      BY <2>4
    <3>2. CASE i = 1
      <4>1. Up = "open" /\ link[c].bound
        BY <1>1, <1>3 DEF Serving, Up
      <4>2. Able
        BY <2>1, <4>1 DEF LinksInTurn
      <4>3. 1 \in DOMAIN In /\ In[1].at[1] = hub.epoch
        BY <1>1, <1>2, <4>1 DEF Channel
      <4>4. In[1].ev.kind # "unavailable"
        BY <1>2, <4>2, <4>3 DEF Channel, Able
      <4>5. ~Refusals(In)
        BY <4>3, <4>4 DEF Refusals
      <4>6. Concludes(Followed(client, t), t.ev)
        BY <4>5, HeadFollowed
      <4> QED BY <1>1, <3>1, <3>2, <4>6
    <3>3. CASE i # 1
      <4>1. i - 1 \in 1..Len(Tail(In)) /\ (i - 1) + 1 = i
        BY <1>1, <3>3
      <4>2. Tail(In)[i - 1] = In[i]
        BY <1>1, <4>1
      <4>3. i - 1 \in DOMAIN In' /\ In'[i - 1].ev.to = id
        BY <1>1, <3>1, <4>1, <4>2
      <4> QED BY <4>3 DEF UnderWay, In
    <3> QED BY <3>2, <3>3
  <2> QED BY <2>2, <2>3, <2>4 DEF UnderWay, In, Out
<1> QED BY <1>9, <1>10

LEMMA ReceivedKeeps ==
  ASSUME DeviceIInv, Active, In # <<>>, NEW d, NEW ms, FollowsOn(d, ms), Receives(d, ms)
  PROVE  DeviceIInv'
<1> DEFINE c == client.conn
           t == Head(In)
           a == Followed(client, t)
<1>0. /\ DeviceTypes /\ RecordedOnce /\ LinksInTurn /\ OwedInOrder /\ Following /\ ShowsFirst /\ StreamLeads
      /\ SendsAreOnTheWay /\ AppReadsAreOnTheWay
  BY DEF DeviceIInv
<1>1. a \in Clients /\ StaysOf([a EXCEPT !.at = client.at], client)
  BY <1>0, HeadFollowed
<1> HIDE DEF a
<1>2. /\ a.kind = client.kind /\ a.conn = c /\ a.reads \subseteq client.reads
      /\ \A r \in Requests : a.sent[r] = "sending" => client.sent[r] = "sending"
  BY <1>1 DEF StaysOf, Clients
<1>3. /\ d \in Clients /\ d.conn = c /\ d.kind = client.kind /\ d.sent = a.sent /\ d.reads = a.reads
      /\ d.phase \in {"syncing", "ready", "unavailable"} /\ ms \in Seq(Commands)
      /\ d.phase = "ready" =>
           client.phase = "ready" \/ (t.ev.kind \in {"snapshot", "accepted"} /\ ms = Unsent(a))
  BY <1>2 DEF FollowsOn, a
<1>4. client' = d /\ hub' = hub /\ history' = history /\ over' = over /\ readTo' = readTo
  BY DEF Receives
<1>5. /\ c \in Links /\ link' \in [Links -> LinkStates] /\ In' = Tail(In) /\ Up' = Up
      /\ link'[c].bound = link[c].bound /\ link'[c].heard = link[c].heard /\ link'[c].up = link[c].up
      /\ \A k \in Links : /\ link'[k].bound = link[k].bound /\ link'[k].up = link[k].up
                          /\ k # c => link'[k] = link[k]
      /\ DOMAIN In = 1..Len(In) /\ Len(In) \in Nat /\ Len(In) # 0 /\ t = In[1]
  BY <1>0, <1>3, ReceivedLinks
<1>6. IsFiniteSet(client.reads) /\ IsFiniteSet(d.reads)
  BY <1>0, <1>2, <1>3, FS_Subset DEF DeviceTypes
<1>7. DeviceTypes'
  BY <1>0, <1>3, <1>4, <1>5, <1>6 DEF DeviceTypes
<1>8. RecordedOnce' /\ OwedInOrder'
  <2>1. RecordedOnce'
    BY <1>0, <1>4 DEF RecordedOnce, Places
  <2>2. OwedInOrder'
    BY <1>0, <1>4 DEF OwedInOrder, Able
  <2> QED BY <2>1, <2>2
<1>9. Following' /\ ShowsFirst'
  BY <1>0, ReceivedFollowing
<1>10. StreamLeads'
  BY <1>0, <1>3, ReceivedStream
<1>11. ASSUME d.phase = "ready", Up = "open" PROVE Able /\ link[c].bound
  <2>1. CASE client.phase = "ready"
    BY <1>0, <1>11, <2>1 DEF LinksInTurn
  <2>2. CASE t.ev.kind \in {"snapshot", "accepted"}
    <3>1. 1 \in DOMAIN In
      BY <1>5
    <3>2. In[1].at[1] = hub.epoch /\ In[1].ev.kind # "unavailable"
      BY <1>0, <1>5, <1>11, <2>2, <3>1 DEF Following
    <3>3. Able
      BY <1>0, <3>1, <3>2 DEF Following
    <3>4. link[c].bound
      BY <1>0, <1>5, <1>11 DEF LinksInTurn, In, Up
    <3> QED BY <3>3, <3>4
  <2> QED BY <1>3, <1>11, <2>1, <2>2
<1>12. LinksInTurn'
  <2>1. ASSUME NEW k \in Links, k > c
        PROVE  link'[k] = [up |-> "unused", bound |-> FALSE, heard |-> TRUE, code |-> "none", out |-> <<>>, in |-> <<>>]
    <3>1. k # c
      BY <1>5, <2>1 DEF Links
    <3> QED BY <1>0, <1>5, <2>1, <3>1 DEF LinksInTurn
  <2>2. \A k \in Links : link'[k].bound <=> hub'.sink = k
    BY <1>0, <1>4, <1>5 DEF LinksInTurn
  <2>3. ASSUME NEW k \in Links, ~link'[k].bound, link'[k].up = "open" PROVE link'[k].in = <<>>
    <3>1. link[k].in = <<>>
      BY <1>0, <1>5, <2>3 DEF LinksInTurn
    <3>2. k # c
      BY <3>1 DEF In
    <3> QED BY <1>5, <3>1, <3>2
  <2>4. c # 0 /\ link'[c].heard /\ Up' # "unused"
    BY <1>0, <1>5 DEF LinksInTurn
  <2>5. client'.phase = "ready" /\ Up' = "open" => Able' /\ link'[client'.conn].bound
    BY <1>3, <1>4, <1>5, <1>11 DEF Able
  <2>6. \A k \in Links : link'[k].bound => link'[k].up # "unused"
    BY <1>0, <1>5 DEF LinksInTurn
  <2> QED BY <1>3, <1>4, <2>1, <2>2, <2>3, <2>4, <2>5, <2>6 DEF LinksInTurn
<1>13. ASSUME Serving', NEW id, (client.phase = "ready" => UnderWay(id)),
              Concludes(a, t.ev) => t.ev.to # id, ms = Unsent(a) => \E i \in DOMAIN ms : ms[i].id = id
       PROVE  UnderWay(id)'
  BY <1>0, <1>3, <1>13, ReceivedOnTheWay DEF a
<1>14. Serving' /\ client.phase = "ready" => Serving
  BY <1>3, <1>4, <1>5 DEF Serving
<1>15. \/ t.ev.kind = "accepted"
       \/ \A r \in Requests : t.ev.to # <<"send", r>>
       \/ t.ev.kind = "unavailable"
  <2>1. In \in Seq(SentEvents)
    BY <1>0, FollowingChannel
  <2>2. t \in SentEvents
    BY <1>5, <2>1, ElementOfSeq
  <2>3. t.ev \in StreamEvents
    BY <2>2 DEF SentEvents
  <2> HIDE DEF t
  <2> QED BY <2>3 DEF StreamEvents, Nobody, SyncIds, ReadIds
<1>16. \/ t.ev.kind = "accepted"
       \/ \A p \in Nat : t.ev.to # <<"read", p>>
       \/ t.ev.kind = "unavailable"
  <2>1. In \in Seq(SentEvents)
    BY <1>0, FollowingChannel
  <2>2. t \in SentEvents
    BY <1>5, <2>1, ElementOfSeq
  <2>3. t.ev \in StreamEvents
    BY <2>2 DEF SentEvents
  <2> HIDE DEF t
  <2> QED BY <2>3 DEF StreamEvents, Nobody, SyncIds, SendIds
<1>17. ASSUME Serving' PROVE t.ev.kind # "unavailable"
  <2>1. Up = "open" /\ d.phase = "ready"
    BY <1>3, <1>4, <1>5, <1>17 DEF Serving, Up
  <2>2. 1 \in DOMAIN In
    BY <1>5
  <2> QED BY <1>0, <1>5, <1>11, <2>1, <2>2 DEF Following
<1>18. /\ Unsent(a) \in Seq(Commands)
       /\ \A r \in Requests : a.sent[r] = "sending" => \E i \in DOMAIN Unsent(a) : Unsent(a)[i].id = <<"send", r>>
       /\ a.kind = "app" => \A p \in a.reads : \E i \in DOMAIN Unsent(a) : Unsent(a)[i].id = <<"read", p>>
  BY <1>1, <1>3, <1>6, AllUnsent
<1>19. SendsAreOnTheWay'
  <2> SUFFICES ASSUME Serving', NEW r \in Requests, client'.sent[r] = "sending" PROVE UnderWay(<<"send", r>>)'
    BY DEF SendsAreOnTheWay
  <2>1. a.sent[r] = "sending" /\ client.sent[r] = "sending"
    BY <1>2, <1>3, <1>4
  <2>2. client.phase = "ready" => UnderWay(<<"send", r>>)
    BY <1>0, <1>14, <2>1 DEF SendsAreOnTheWay
  <2>3. Concludes(a, t.ev) => t.ev.to # <<"send", r>>
    BY <1>15, <1>17, <2>1 DEF Concludes
  <2>4. ms = Unsent(a) => \E i \in DOMAIN ms : ms[i].id = <<"send", r>>
    BY <1>18, <2>1
  <2> QED BY <1>13, <2>2, <2>3, <2>4
<1>20. AppReadsAreOnTheWay'
  <2> SUFFICES ASSUME client'.kind = "app", Serving', NEW p \in client'.reads PROVE UnderWay(<<"read", p>>)'
    BY DEF AppReadsAreOnTheWay, ReadsAreOnTheWay
  <2>1. p \in a.reads /\ p \in client.reads /\ client.kind = "app" /\ p \in Nat
    BY <1>0, <1>2, <1>3, <1>4 DEF DeviceTypes, Clients
  <2>2. client.phase = "ready" => UnderWay(<<"read", p>>)
    BY <1>0, <1>14, <2>1 DEF AppReadsAreOnTheWay, ReadsAreOnTheWay
  <2>3. Concludes(a, t.ev) => t.ev.to # <<"read", p>>
    BY <1>16, <1>17, <2>1 DEF Concludes
  <2>4. ms = Unsent(a) => \E i \in DOMAIN ms : ms[i].id = <<"read", p>>
    BY <1>2, <1>18, <2>1
  <2> QED BY <1>13, <2>2, <2>3, <2>4
<1> QED BY <1>7, <1>8, <1>9, <1>10, <1>12, <1>19, <1>20 DEF DeviceIInv

LEMMA NoMore == <<>> \in Seq(Commands) /\ \A i \in DOMAIN <<>> : FALSE
OBVIOUS

LEMMA AskAgainType ==
  ASSUME NEW c \in Clients
  PROVE  /\ AskedAgain(c) \in Clients /\ AskedAgain(c).phase = "syncing"
         /\ AskedAgain(c).kind = c.kind /\ AskedAgain(c).conn = c.conn /\ AskedAgain(c).at = c.at
         /\ AskedAgain(c).shown = c.shown /\ AskedAgain(c).sent = c.sent /\ AskedAgain(c).reads = c.reads
         /\ SyncOf(c.syncs + 1, Nowhere) \in Commands /\ <<SyncOf(c.syncs + 1, Nowhere)>> \in Seq(Commands)
         /\ SyncOf(c.syncs + 1, Nowhere).kind = "sync" /\ SyncOf(c.syncs + 1, Nowhere).body = Nowhere
         /\ SyncOf(c.syncs + 1, c.at) \in Commands
<1>1. /\ AskedAgain(c) \in Clients /\ AskedAgain(c).phase = "syncing"
      /\ AskedAgain(c).kind = c.kind /\ AskedAgain(c).conn = c.conn /\ AskedAgain(c).at = c.at
      /\ AskedAgain(c).shown = c.shown /\ AskedAgain(c).sent = c.sent /\ AskedAgain(c).reads = c.reads
  <2> DEFINE n == c.syncs + 1
             b == [c EXCEPT !.phase = "syncing", !.asked = n, !.syncs = n]
  <2>1. AskedAgain(c) = b
    BY DEF AskedAgain, Clients
  <2>2. n \in Nat
    BY DEF Clients
  <2> HIDE DEF n
  <2>3. b \in Clients
    BY <2>2 DEF Clients
  <2>4. /\ b.phase = "syncing" /\ b.kind = c.kind /\ b.conn = c.conn /\ b.at = c.at
        /\ b.shown = c.shown /\ b.sent = c.sent /\ b.reads = c.reads
    BY DEF Clients
  <2> QED BY <2>1, <2>3, <2>4
<1>2. c.syncs + 1 \in Nat /\ c.at \in Positions /\ Nowhere \in Positions
  BY DEF Clients, Nowhere, Positions
<1>3. SyncOf(c.syncs + 1, Nowhere) \in Commands /\ SyncOf(c.syncs + 1, c.at) \in Commands
  BY <1>2 DEF SyncOf, Commands, SyncIds
<1> QED BY <1>1, <1>3 DEF SyncOf

LEMMA Received ==
  ASSUME DeviceIInv, ClientReceives PROVE DeviceIInv'
<1> DEFINE t == Head(In)
           a == Followed(client, t)
<1>0. DeviceTypes /\ LinksInTurn /\ Following /\ ShowsFirst
  BY DEF DeviceIInv
<1>1. Active /\ In # <<>> /\ history' = history /\ over' = over /\ readTo' = readTo /\ hub' = hub
  BY DEF ClientReceives, In
<1>2. /\ a \in Clients /\ StaysOf([a EXCEPT !.at = client.at], client)
      /\ Placing(client, t) \in {"skip", "resync"} => a = client
  BY <1>0, <1>1, HeadFollowed
<1>3. client \in Clients
  BY <1>0 DEF DeviceTypes
<1>4. a.phase = client.phase
  <2> HIDE DEF a
  <2> QED BY <1>2 DEF StaysOf, Clients
<1>5. client.phase \in {"syncing", "ready", "unavailable"}
  BY <1>1 DEF Active
<1>6. \E d, ms : FollowsOn(d, ms) /\ Receives(d, ms)
  <2>1. CASE Placing(client, t) \in {"skip", "resync"} /\ client' = client
                /\ link' = [[link EXCEPT ![client.conn].in = Tail(@)] EXCEPT ![client.conn].out = @ \o <<>>]
    <3>1. Receives(client, <<>>)
      BY <1>1, <2>1 DEF Receives
    <3>2. FollowsOn(client, <<>>)
      BY <1>2, <1>3, <1>5, <2>1, NoMore DEF FollowsOn
    <3> QED BY <3>1, <3>2
  <2>2. CASE Placing(client, t) = "resync" /\ client' = AskedAgain(client)
                /\ link' = [[link EXCEPT ![client.conn].in = Tail(@)] EXCEPT ![client.conn].out = @ \o <<SyncOf(client.syncs + 1, Nowhere)>>]
    <3> DEFINE ms == <<SyncOf(client.syncs + 1, Nowhere)>>
    <3>1. Receives(AskedAgain(client), ms)
      BY <1>1, <2>2 DEF Receives
    <3>2. ms \in Seq(Commands) /\ \A i \in DOMAIN ms : ms[i].kind = "sync" => ms[i].body = Nowhere
      BY <1>3, AskAgainType
    <3> HIDE DEF ms
    <3>3. FollowsOn(AskedAgain(client), ms)
      BY <1>2, <1>3, <2>2, <3>2, AskAgainType DEF FollowsOn
    <3> QED BY <3>1, <3>3
  <2>3. CASE MakesReady(client, t.ev) /\ client' = [a EXCEPT !.phase = "ready", !.asked = 0]
                /\ link' = [[link EXCEPT ![client.conn].in = Tail(@)] EXCEPT ![client.conn].out = @ \o Unsent(a)]
    <3> DEFINE d == [a EXCEPT !.phase = "ready", !.asked = 0]
    <3>1. Receives(d, Unsent(a))
      BY <1>1, <2>3 DEF Receives
    <3>2. IsFiniteSet(a.reads)
      <4>1. a.reads \subseteq client.reads
        <5> HIDE DEF a
        <5> QED BY <1>2 DEF StaysOf, Clients
      <4> QED BY <1>0, <4>1, FS_Subset DEF DeviceTypes
    <3>3. Unsent(a) \in Seq(Commands) /\ \A i \in DOMAIN Unsent(a) : Unsent(a)[i].kind # "sync"
      BY <1>2, <3>2, AllUnsent
    <3>4. t.ev.kind \in {"snapshot", "accepted"}
      BY <2>3 DEF MakesReady
    <3>5. /\ d \in Clients /\ d.kind = a.kind /\ d.conn = a.conn /\ d.at = a.at /\ d.shown = a.shown
          /\ d.sent = a.sent /\ d.reads = a.reads /\ d.phase = "ready"
      <4> HIDE DEF a
      <4> QED BY <1>2 DEF Clients
    <3> HIDE DEF d
    <3>6. FollowsOn(d, Unsent(a))
      BY <3>3, <3>4, <3>5 DEF FollowsOn
    <3> QED BY <3>1, <3>6
  <2>4. CASE client' = [a EXCEPT !.phase = "unavailable", !.asked = 0]
                /\ link' = [[link EXCEPT ![client.conn].in = Tail(@)] EXCEPT ![client.conn].out = @ \o <<>>]
    <3> DEFINE d == [a EXCEPT !.phase = "unavailable", !.asked = 0]
    <3>1. Receives(d, <<>>)
      BY <1>1, <2>4 DEF Receives
    <3>2. /\ d \in Clients /\ d.kind = a.kind /\ d.conn = a.conn /\ d.at = a.at /\ d.shown = a.shown
          /\ d.sent = a.sent /\ d.reads = a.reads /\ d.phase = "unavailable"
      <4> HIDE DEF a
      <4> QED BY <1>2 DEF Clients
    <3> HIDE DEF d
    <3>3. FollowsOn(d, <<>>)
      BY <3>2, NoMore DEF FollowsOn
    <3> QED BY <3>1, <3>3
  <2>5. CASE client' = a
                /\ link' = [[link EXCEPT ![client.conn].in = Tail(@)] EXCEPT ![client.conn].out = @ \o <<>>]
    <3>1. Receives(a, <<>>)
      BY <1>1, <2>5 DEF Receives
    <3>2. FollowsOn(a, <<>>)
      BY <1>2, <1>4, <1>5, NoMore DEF FollowsOn
    <3> QED BY <3>1, <3>2
  <2> QED BY <2>1, <2>2, <2>3, <2>4, <2>5 DEF ClientReceives, In
<1> QED BY <1>1, <1>6, ReceivedKeeps

-----------------------------------------------------------------------------
\* What the owner does on the device, and the connections it opens.

\* A set of naturals with a bound has a greatest element.
LEMMA Greatest ==
  ASSUME NEW S \in SUBSET Nat, S # {}, NEW n \in Nat, \A x \in S : x <= n
  PROVE  \E x \in S : \A y \in S : y <= x
<1> DEFINE R == OpToRel(<, Nat)
           T == {n - x : x \in S}
<1>1. IsWellFoundedOn(R, Nat)
  BY NatLessThanWellFounded
<1>2. \A x, y \in Nat : x < y => <<x, y>> \in R
  BY DEF OpToRel
<1>3. T \subseteq Nat /\ T # {}
  <2>1. \A x \in S : n - x \in Nat
    OBVIOUS
  <2>2. PICK x \in S : TRUE
    OBVIOUS
  <2>3. n - x \in T
    BY <2>2
  <2> QED BY <2>1, <2>3
<1> HIDE DEF R, T
<1>4. PICK x \in T : \A y \in T : ~ (<<y, x>> \in R)
  BY <1>1, <1>3, WFMin
<1>5. PICK a \in S : x = n - a
  BY DEF T
<1>6. ASSUME NEW b \in S PROVE b <= a
  <2>1. n - b \in T /\ n - b \in Nat /\ n - a \in Nat
    BY <1>3, <1>5 DEF T
  <2>2. ~ (n - b < n - a)
    BY <1>2, <1>4, <1>5, <2>1
  <2> QED BY <2>2
<1> QED BY <1>6

\* The device sends on its connection, or notes what to send on the next.
Writing(d, ms) ==
  /\ client' = d /\ d \in Clients /\ IsFiniteSet(d.reads)
  /\ d.kind = client.kind /\ d.conn = client.conn /\ d.at = client.at /\ d.shown = client.shown
  /\ d.phase = client.phase \/ (client.phase = "unavailable" /\ d.phase = "syncing")
  /\ ms \in Seq(Commands) /\ \A i \in DOMAIN ms : ms[i].kind = "sync" => ms[i].body = Nowhere
  /\ \/ Active /\ link' = [link EXCEPT ![client.conn].out = @ \o ms]
     \/ ms = <<>> /\ link' = link
  /\ history' = history /\ over' = over /\ readTo' = readTo /\ hub' = hub

LEMMA WritingLinks ==
  ASSUME DeviceTypes, LinksInTurn, Following, NEW d, NEW ms, Writing(d, ms)
  PROVE  /\ link' \in [Links -> LinkStates]
         /\ \A k \in Links :
              /\ link'[k].in = link[k].in /\ link'[k].up = link[k].up /\ link'[k].bound = link[k].bound
              /\ link'[k].heard = link[k].heard /\ (k # client.conn => link'[k] = link[k])
         /\ Active => /\ client.conn \in Links /\ Out \in Seq(Commands)
                      /\ (Out' = Out \o ms \/ (Out' = Out /\ ms = <<>>))
         /\ ~Active => link' = link /\ ms = <<>>
<1> DEFINE c == client.conn
<1>1. CASE ms = <<>> /\ link' = link
  <2>1. Active => client.conn \in Links /\ Out \in Seq(Commands) /\ Out' = Out
    BY <1>1, FollowingChannel DEF Out, Writing
  <2> QED BY <1>1, <2>1 DEF DeviceTypes
<1>2. CASE Active /\ link' = [link EXCEPT ![c].out = @ \o ms]
  <2>1. c \in Links /\ Out \in Seq(Commands) /\ link[c] \in LinkStates
    BY <1>2, FollowingChannel
  <2>2. Out \o ms \in Seq(Commands)
    BY <2>1, Joined DEF Writing
  <2> DEFINE q == Out \o ms
             x == [link[c] EXCEPT !.out = q]
  <2>3. link' = [link EXCEPT ![c] = x] /\ link \in [Links -> LinkStates]
    BY <1>2, <2>1 DEF Out, DeviceTypes
  <2>4. x \in LinkStates /\ x.out = q /\ x.in = link[c].in /\ x.up = link[c].up /\ x.bound = link[c].bound
        /\ x.heard = link[c].heard
    <3>1. q \in Seq(Commands)
      BY <2>2
    <3> HIDE DEF q
    <3> QED BY <2>1, <3>1 DEF LinkStates
  <2> HIDE DEF x, q
  <2>5. link' \in [Links -> LinkStates] /\ link'[c] = x /\ \A k \in Links : k # c => link'[k] = link[k]
    BY <2>1, <2>3, <2>4
  <2>6. Out' = q
    BY <2>4, <2>5 DEF Out, Writing
  <2> QED BY <1>2, <2>1, <2>4, <2>5, <2>6 DEF q
<1> QED BY <1>1, <1>2 DEF Writing

LEMMA WritingKeeps ==
  ASSUME DeviceIInv, NEW d, NEW ms, Writing(d, ms)
  PROVE  /\ DeviceTypes' /\ RecordedOnce' /\ LinksInTurn' /\ OwedInOrder' /\ Following' /\ ShowsFirst' /\ StreamLeads'
         /\ Serving' => Serving
         /\ \A id : Serving' /\ (UnderWay(id) \/ \E i \in DOMAIN ms : ms[i].id = id) => UnderWay(id)'
<1> DEFINE c == client.conn
<1>0. /\ DeviceTypes /\ RecordedOnce /\ LinksInTurn /\ OwedInOrder /\ Following /\ ShowsFirst /\ StreamLeads
  BY DEF DeviceIInv
<1>1. /\ link' \in [Links -> LinkStates]
      /\ \A k \in Links :
           /\ link'[k].in = link[k].in /\ link'[k].up = link[k].up /\ link'[k].bound = link[k].bound
           /\ link'[k].heard = link[k].heard /\ (k # c => link'[k] = link[k])
      /\ Active => c \in Links /\ Out \in Seq(Commands) /\ (Out' = Out \o ms \/ (Out' = Out /\ ms = <<>>))
      /\ ~Active => link' = link /\ ms = <<>>
  BY <1>0, WritingLinks
<1>2. /\ client' = d /\ d \in Clients /\ IsFiniteSet(d.reads)
      /\ d.kind = client.kind /\ d.conn = c /\ d.at = client.at /\ d.shown = client.shown
      /\ d.phase = client.phase \/ (client.phase = "unavailable" /\ d.phase = "syncing")
      /\ ms \in Seq(Commands) /\ (\A i \in DOMAIN ms : ms[i].kind = "sync" => ms[i].body = Nowhere)
      /\ history' = history /\ over' = over /\ readTo' = readTo /\ hub' = hub
  BY DEF Writing
<1>3. (Active' <=> Active) /\ (Able' <=> Able)
  BY <1>2 DEF Active, Able
<1>4. Active => In' = In /\ Up' = Up /\ link'[c].bound = link[c].bound /\ link'[c].heard = link[c].heard
  BY <1>1, <1>2 DEF In, Up
<1>5. DeviceTypes'
  BY <1>0, <1>1, <1>2 DEF DeviceTypes
<1>6. RecordedOnce' /\ OwedInOrder' /\ ShowsFirst'
  <2>1. RecordedOnce'
    BY <1>0, <1>2 DEF RecordedOnce, Places
  <2>2. ShowsFirst'
    BY <1>0, <1>2 DEF ShowsFirst, ShownInOrder
  <2>3. OwedInOrder'
    BY <1>0, <1>2 DEF OwedInOrder, Able
  <2> QED BY <2>1, <2>2, <2>3
<1>7. LinksInTurn'
  <2>1. ASSUME NEW k \in Links, k > c
        PROVE  link'[k] = [up |-> "unused", bound |-> FALSE, heard |-> TRUE, code |-> "none", out |-> <<>>, in |-> <<>>]
    <3>1. k # c
      BY <1>0, <2>1 DEF DeviceTypes, Clients, Links
    <3> QED BY <1>0, <1>1, <2>1, <3>1 DEF LinksInTurn
  <2>2. Active' => client'.conn # 0 /\ link'[client'.conn].heard /\ Up' # "unused"
    BY <1>0, <1>2, <1>3, <1>4 DEF LinksInTurn
  <2>3. client'.phase = "ready" /\ Up' = "open" => Able' /\ link'[client'.conn].bound
    <3>1. client'.phase = "ready" => Active /\ client.phase = "ready"
      BY <1>2 DEF Active
    <3> QED BY <1>0, <1>2, <1>3, <1>4, <3>1 DEF LinksInTurn
  <2> QED BY <1>0, <1>1, <1>2, <2>1, <2>2, <2>3 DEF LinksInTurn
<1>8. Active => \A i \in DOMAIN Out' : Out'[i].kind = "sync" /\ Out'[i].body # Nowhere =>
                  i = 1 /\ Out'[i].body = client.at /\ ~link[c].bound /\ In = <<>>
  <2> SUFFICES ASSUME Active, NEW i \in DOMAIN Out', Out'[i].kind = "sync", Out'[i].body # Nowhere
               PROVE  i = 1 /\ Out'[i].body = client.at /\ ~link[c].bound /\ In = <<>>
    OBVIOUS
  <2>1. ASSUME i \in DOMAIN Out, Out'[i] = Out[i] PROVE i = 1 /\ Out'[i].body = client.at /\ ~link[c].bound /\ In = <<>>
    BY <1>0, <2>1 DEF Following
  <2>2. CASE Out' = Out
    BY <2>1, <2>2
  <2>3. CASE Out' = Out \o ms
    <3>1. Out \in Seq(Commands) /\ ms \in Seq(Commands)
      BY <1>1, <1>2
    <3>2. Len(Out) \in Nat /\ Len(ms) \in Nat /\ Len(Out \o ms) = Len(Out) + Len(ms) /\ Out \o ms \in Seq(Commands)
      BY <3>1, Joined
    <3>3. \A j \in 1..Len(Out) : (Out \o ms)[j] = Out[j]
      BY <3>1, Joined
    <3>4. \A j \in (Len(Out) + 1)..(Len(Out) + Len(ms)) : (Out \o ms)[j] = ms[j - Len(Out)]
      BY <3>1, Joined
    <3>5. DOMAIN Out = 1..Len(Out) /\ DOMAIN ms = 1..Len(ms) /\ DOMAIN (Out \o ms) = 1..(Len(Out) + Len(ms))
      BY <3>1, <3>2, LenProperties
    <3>6. CASE i <= Len(Out)
      <4>1. i \in 1..Len(Out)
        BY <2>3, <3>2, <3>5, <3>6
      <4> QED BY <2>1, <2>3, <3>3, <3>5, <4>1
    <3>7. CASE ~(i <= Len(Out))
      <4>1. i \in (Len(Out) + 1)..(Len(Out) + Len(ms)) /\ i - Len(Out) \in 1..Len(ms)
        BY <2>3, <3>2, <3>5, <3>7
      <4>2. Out'[i] = ms[i - Len(Out)] /\ i - Len(Out) \in DOMAIN ms
        BY <2>3, <3>4, <3>5, <4>1
      <4> QED BY <1>2, <4>2
    <3> QED BY <3>6, <3>7
  <2> QED BY <1>1, <2>2, <2>3
<1>9. Following'
  <2>1. client'.at[1] <= hub'.epoch
    BY <1>0, <1>2 DEF Following
  <2>2. CASE ~Active
    BY <1>3, <2>1, <2>2 DEF Following, Live
  <2>3. CASE Active
    <3>1. /\ \A i \in DOMAIN In' :
              /\ In'[i].at[1] \in 1..hub'.epoch /\ Ext(In'[i].ev) <= Len(history')
              /\ In'[i].at[1] = hub'.epoch => (In'[i].ev.kind = "unavailable" <=> ~Able')
              /\ Up' = "open" => In'[i].at[1] = hub'.epoch
          /\ Refusals(In') \/ Chained(In', client'.at)
          /\ Coherent(Bodies(In'), 0, Len(client'.shown))
      BY <1>0, <1>2, <1>3, <1>4, <2>3 DEF Following
    <3>2. \A i \in DOMAIN Out' : Out'[i].kind = "sync" /\ Out'[i].body # Nowhere =>
            i = 1 /\ Out'[i].body = client'.at /\ ~link'[client'.conn].bound /\ In' = <<>>
      BY <1>2, <1>4, <1>8, <2>3
    <3>3. (Live' <=> Live)
      BY <1>2, <1>3, <1>4, <2>3 DEF Live
    <3>4. Live' => /\ Reached(In', client'.at) = <<hub'.epoch, hub'.last>>
                   /\ Complete(Bodies(In'), 0, Len(client'.shown), Len(history'), hub'.owed)
      BY <1>0, <1>2, <1>4, <2>3, <3>3 DEF Following
    <3> QED BY <2>1, <3>1, <3>2, <3>4 DEF Following
  <2> QED BY <2>2, <2>3
<1>10. StreamLeads'
  <2>1. PICK full \in Seq(StreamEvents) : StreamOf(full)
    BY <1>0 DEF StreamLeads
  <2>2. StreamOf(full)'
    BY <1>2, <1>3, <1>4, <2>1 DEF StreamOf
  <2> QED BY <2>2 DEF StreamLeads
<1>11. Serving' => Serving /\ Active
  <2> SUFFICES ASSUME Serving' PROVE Serving /\ Active
    OBVIOUS
  <2>1. client.phase = "ready" /\ Active
    BY <1>2 DEF Serving, Active
  <2> QED BY <1>1, <1>2, <2>1 DEF Serving
<1>12. ASSUME Serving', NEW id, UnderWay(id) \/ \E i \in DOMAIN ms : ms[i].id = id PROVE UnderWay(id)'
  <2>1. Active /\ In' = In
    BY <1>4, <1>11, <1>12
  <2>2. CASE Out' = Out /\ ms = <<>>
    <3>1. UnderWay(id)
      BY <1>12, <2>2
    <3> QED BY <1>2, <2>1, <2>2, <3>1 DEF UnderWay, In, Out
  <2>3. CASE Out' = Out \o ms
    <3>1. Out \in Seq(Commands) /\ ms \in Seq(Commands)
      BY <1>1, <1>2, <2>1
    <3>2. Len(Out) \in Nat /\ Len(ms) \in Nat /\ Len(Out \o ms) = Len(Out) + Len(ms) /\ Out \o ms \in Seq(Commands)
      BY <3>1, Joined
    <3>3. \A j \in 1..Len(Out) : (Out \o ms)[j] = Out[j]
      BY <3>1, Joined
    <3>4. \A j \in 1..Len(ms) : (Out \o ms)[Len(Out) + j] = ms[j]
      BY <3>1, Joined
    <3>5. DOMAIN Out = 1..Len(Out) /\ DOMAIN ms = 1..Len(ms) /\ DOMAIN (Out \o ms) = 1..(Len(Out) + Len(ms))
      BY <3>1, <3>2, LenProperties
    <3>6. ASSUME NEW i \in DOMAIN Out, Out[i].id = id PROVE UnderWay(id)'
      <4>1. i \in 1..Len(Out) /\ i \in DOMAIN Out'
        BY <2>3, <3>2, <3>5
      <4>2. Out'[i].id = id
        BY <2>3, <3>3, <3>6, <4>1
      <4> QED BY <4>1, <4>2 DEF UnderWay, Out
    <3>7. ASSUME NEW i \in DOMAIN ms, ms[i].id = id PROVE UnderWay(id)'
      <4>1. i \in 1..Len(ms) /\ Len(Out) + i \in DOMAIN Out'
        BY <2>3, <3>2, <3>5
      <4>2. Out'[Len(Out) + i].id = id
        BY <2>3, <3>4, <3>7, <4>1
      <4> QED BY <4>1, <4>2 DEF UnderWay, Out
    <3>8. ASSUME NEW i \in DOMAIN In, In[i].ev.to = id PROVE UnderWay(id)'
      BY <2>1, <3>8 DEF UnderWay, In
    <3> QED BY <1>12, <3>6, <3>7, <3>8 DEF UnderWay, In, Out
  <2> QED BY <1>1, <2>1, <2>2, <2>3
<1> QED BY <1>5, <1>6, <1>7, <1>9, <1>10, <1>11, <1>12

LEMMA OneCommand ==
  ASSUME NEW m \in Commands
  PROVE  /\ <<m>> \in Seq(Commands) /\ 1 \in DOMAIN <<m>> /\ <<m>>[1] = m
         /\ \A i \in DOMAIN <<m>> : <<m>>[i] = m
OBVIOUS

LEMMA Written ==
  ASSUME DeviceIInv, NEW r \in Requests, NEW from, NEW tries, tries \in {0, 1}, Writes(r, from, tries)
  PROVE  DeviceIInv'
<1> DEFINE d == [client EXCEPT !.sent[r] = "sending", !.tries = @ + tries]
           ms == IF client.phase = "ready" THEN <<SendOf(r)>> ELSE <<>>
<1>0. DeviceTypes /\ LinksInTurn /\ SendsAreOnTheWay /\ AppReadsAreOnTheWay /\ client \in Clients
  BY DEF DeviceIInv, DeviceTypes
<1>1. /\ d \in Clients /\ d.kind = client.kind /\ d.conn = client.conn /\ d.at = client.at
      /\ d.shown = client.shown /\ d.phase = client.phase /\ d.reads = client.reads
      /\ \A q \in Requests : d.sent[q] = (IF q = r THEN "sending" ELSE client.sent[q])
  <2> DEFINE se == [client.sent EXCEPT ![r] = "sending"]
             n == client.tries + tries
  <2>1. /\ se \in [Requests -> {"unsent", "sending", "done", "failed"}] /\ n \in Nat
        /\ \A q \in Requests : se[q] = (IF q = r THEN "sending" ELSE client.sent[q])
    BY <1>0 DEF Clients
  <2>2. d = [client EXCEPT !.sent = se, !.tries = n]
    BY <1>0 DEF Clients
  <2> HIDE DEF se, n, d
  <2> QED BY <1>0, <2>1, <2>2 DEF Clients
<1>2. ms \in Seq(Commands) /\ \A i \in DOMAIN ms : ms[i].kind = "sync" => ms[i].body = Nowhere
  <2>1. SendOf(r) \in Commands /\ SendOf(r).kind = "send"
    BY CommandsOf
  <2>2. CASE client.phase = "ready"
    BY <2>1, <2>2, OneCommand
  <2>3. CASE client.phase # "ready"
    BY <2>3, NoMore
  <2> QED BY <2>2, <2>3
<1>3. client' = d /\ history' = history /\ over' = over /\ readTo' = readTo /\ hub' = hub
  BY DEF Writes
<1>4. \/ Active /\ link' = [link EXCEPT ![client.conn].out = @ \o ms]
      \/ ms = <<>> /\ link' = link
  BY DEF Writes, Sends, Active
<1>5. client.phase = "ready" => \E i \in DOMAIN ms : ms[i].id = <<"send", r>>
  BY CommandsOf, OneCommand
<1> HIDE DEF d, ms
<1>6. Writing(d, ms)
  BY <1>0, <1>1, <1>2, <1>3, <1>4 DEF Writing, DeviceTypes
<1>7. /\ DeviceTypes' /\ RecordedOnce' /\ LinksInTurn' /\ OwedInOrder' /\ Following' /\ ShowsFirst' /\ StreamLeads'
      /\ Serving' => Serving
      /\ \A id : Serving' /\ (UnderWay(id) \/ \E i \in DOMAIN ms : ms[i].id = id) => UnderWay(id)'
  BY <1>6, WritingKeeps
<1>8. SendsAreOnTheWay'
  <2> SUFFICES ASSUME Serving', NEW q \in Requests, client'.sent[q] = "sending" PROVE UnderWay(<<"send", q>>)'
    BY DEF SendsAreOnTheWay
  <2>1. CASE q = r
    BY <1>5, <1>7, <2>1 DEF Serving
  <2>2. CASE q # r
    <3>1. UnderWay(<<"send", q>>)
      BY <1>0, <1>1, <1>3, <1>7, <2>2 DEF SendsAreOnTheWay
    <3> QED BY <1>7, <3>1
  <2> QED BY <2>1, <2>2
<1>9. AppReadsAreOnTheWay'
  BY <1>0, <1>1, <1>3, <1>7 DEF AppReadsAreOnTheWay, ReadsAreOnTheWay
<1> QED BY <1>7, <1>8, <1>9 DEF DeviceIInv

\* What is read is something shown.
LEMMA ReadsThrough ==
  ASSUME DeviceTypes, ShowsFirst, NEW replies, replies = {p \in Range(client.shown) : history[p] = Reply},
         replies # {}
  PROVE  Last(client.shown) \in Nat /\ (CHOOSE q \in replies : \A o \in replies : o <= q) \in Nat
<1>1. client.shown \in Seq(Nat) /\ Len(client.shown) \in Nat /\ DOMAIN client.shown = 1..Len(client.shown)
  BY LenProperties DEF DeviceTypes, Clients
<1>2. \A p \in Range(client.shown) : p \in 1..Len(client.shown)
  BY <1>1 DEF Range, ShowsFirst, ShownInOrder
<1>3. replies \in SUBSET Nat /\ \A p \in replies : p <= Len(client.shown)
  BY <1>1, <1>2
<1>4. \E q \in replies : \A o \in replies : o <= q
  BY <1>1, <1>3, Greatest
<1>5. (CHOOSE q \in replies : \A o \in replies : o <= q) \in replies
  BY <1>4
<1>6. Len(client.shown) \in DOMAIN client.shown
  BY <1>1, <1>2
<1>7. Last(client.shown) = Len(client.shown)
  BY <1>6 DEF Last, ShowsFirst, ShownInOrder
<1> QED BY <1>1, <1>3, <1>5, <1>7

LEMMA OwnerHasRead ==
  ASSUME DeviceIInv, OwnerReads PROVE DeviceIInv'
<1> DEFINE replies == {p \in Range(client.shown) : history[p] = Reply}
           through == IF client.kind = "browser" THEN Last(client.shown)
                      ELSE CHOOSE q \in replies : \A o \in replies : o <= q
           d == [client EXCEPT !.reads = @ \cup {through}, !.tries = @ + 1]
           ms == IF client.phase = "ready" THEN <<ReadOf(through)>> ELSE <<>>
<1>0. DeviceTypes /\ LinksInTurn /\ ShowsFirst /\ SendsAreOnTheWay /\ AppReadsAreOnTheWay /\ client \in Clients
  BY DEF DeviceIInv, DeviceTypes
<1>1. /\ replies # {} /\ client' = d
      /\ link' = IF client.phase = "ready" THEN Sends(client, <<ReadOf(through)>>) ELSE link
      /\ history' = history /\ over' = over /\ readTo' = readTo /\ hub' = hub
  BY DEF OwnerReads
<1>2. through \in Nat
  BY <1>0, <1>1, ReadsThrough
<1> HIDE DEF through
<1>3. /\ d \in Clients /\ d.kind = client.kind /\ d.conn = client.conn /\ d.at = client.at
      /\ d.shown = client.shown /\ d.phase = client.phase /\ d.reads = client.reads \cup {through}
      /\ d.sent = client.sent
  <2> DEFINE re == client.reads \cup {through}
             n == client.tries + 1
  <2>1. re \in SUBSET Nat /\ n \in Nat
    BY <1>0, <1>2 DEF Clients
  <2>2. d = [client EXCEPT !.reads = re, !.tries = n]
    BY <1>0 DEF Clients
  <2> HIDE DEF re, n, d
  <2>3. /\ d \in Clients /\ d.kind = client.kind /\ d.conn = client.conn /\ d.at = client.at
        /\ d.shown = client.shown /\ d.phase = client.phase /\ d.reads = re /\ d.sent = client.sent
    BY <1>0, <2>1, <2>2 DEF Clients
  <2> QED BY <2>3 DEF re
<1>4. IsFiniteSet(client.reads \cup {through})
  BY <1>0, FS_AddElement DEF DeviceTypes
<1>5. ms \in Seq(Commands) /\ \A i \in DOMAIN ms : ms[i].kind = "sync" => ms[i].body = Nowhere
  <2>1. ReadOf(through) \in Commands /\ ReadOf(through).kind = "read"
    BY <1>2, CommandsOf
  <2>2. CASE client.phase = "ready"
    BY <2>1, <2>2, OneCommand
  <2>3. CASE client.phase # "ready"
    BY <2>3, NoMore
  <2> QED BY <2>2, <2>3
<1>6. \/ Active /\ link' = [link EXCEPT ![client.conn].out = @ \o ms]
      \/ ms = <<>> /\ link' = link
  BY <1>1 DEF Sends, Active
<1>7. client.phase = "ready" => \E i \in DOMAIN ms : ms[i].id = <<"read", through>>
  BY <1>2, CommandsOf, OneCommand
<1> HIDE DEF d, ms
<1>8. Writing(d, ms)
  BY <1>1, <1>3, <1>4, <1>5, <1>6 DEF Writing
<1>9. /\ DeviceTypes' /\ RecordedOnce' /\ LinksInTurn' /\ OwedInOrder' /\ Following' /\ ShowsFirst' /\ StreamLeads'
      /\ Serving' => Serving
      /\ \A id : Serving' /\ (UnderWay(id) \/ \E i \in DOMAIN ms : ms[i].id = id) => UnderWay(id)'
  BY <1>8, WritingKeeps
<1>10. SendsAreOnTheWay'
  BY <1>0, <1>1, <1>3, <1>9 DEF SendsAreOnTheWay
<1>11. AppReadsAreOnTheWay'
  <2> SUFFICES ASSUME client'.kind = "app", Serving', NEW p \in client'.reads PROVE UnderWay(<<"read", p>>)'
    BY DEF AppReadsAreOnTheWay, ReadsAreOnTheWay
  <2>1. CASE p = through
    BY <1>7, <1>9, <2>1 DEF Serving
  <2>2. CASE p \in client.reads
    <3>1. UnderWay(<<"read", p>>)
      BY <1>0, <1>1, <1>3, <1>9, <2>2 DEF AppReadsAreOnTheWay, ReadsAreOnTheWay
    <3> QED BY <1>9, <3>1
  <2> QED BY <1>1, <1>3, <2>1, <2>2
<1> QED BY <1>9, <1>10, <1>11 DEF DeviceIInv

LEMMA AskedOnceMore ==
  ASSUME DeviceIInv, ClientAsksAgain PROVE DeviceIInv'
<1> DEFINE d == AskedAgain(client)
           ms == <<SyncOf(client.syncs + 1, Nowhere)>>
<1>0. DeviceTypes /\ client \in Clients
  BY DEF DeviceIInv, DeviceTypes
<1>1. /\ client.phase = "unavailable" /\ client' = d /\ link' = Sends(client, ms)
      /\ history' = history /\ over' = over /\ readTo' = readTo /\ hub' = hub
  BY DEF ClientAsksAgain
<1>2. /\ d \in Clients /\ d.phase = "syncing" /\ d.kind = client.kind /\ d.conn = client.conn /\ d.at = client.at
      /\ d.shown = client.shown /\ d.reads = client.reads
      /\ ms \in Seq(Commands) /\ \A i \in DOMAIN ms : ms[i].kind = "sync" => ms[i].body = Nowhere
  BY <1>0, AskAgainType, OneCommand
<1>3. Active /\ link' = [link EXCEPT ![client.conn].out = @ \o ms]
  BY <1>1 DEF Active, Sends
<1> HIDE DEF d, ms
<1>4. Writing(d, ms)
  BY <1>0, <1>1, <1>2, <1>3 DEF Writing, DeviceTypes
<1>5. /\ DeviceTypes' /\ RecordedOnce' /\ LinksInTurn' /\ OwedInOrder' /\ Following' /\ ShowsFirst' /\ StreamLeads'
  BY <1>4, WritingKeeps
<1>6. SendsAreOnTheWay' /\ AppReadsAreOnTheWay'
  BY <1>1, <1>2 DEF SendsAreOnTheWay, AppReadsAreOnTheWay, ReadsAreOnTheWay, Serving
<1> QED BY <1>5, <1>6 DEF DeviceIInv

LEMMA NothingComes ==
  ASSUME NEW at, NEW k
  PROVE  Refusals(<<>>) /\ Coherent(Bodies(<<>>), 0, k) /\ (\A i \in DOMAIN <<>> : FALSE)
<1>1. <<>> \in Seq(SentEvents) /\ Refusals(<<>>)
  BY DEF Refusals
<1>2. Coherent(Bodies(<<>>), 0, k)
  BY <1>1, RefusalsCohere
<1> QED BY <1>1, <1>2

LEMMA Connected ==
  ASSUME DeviceIInv, ClientConnects PROVE DeviceIInv'
<1> DEFINE n == client.conn + 1
           b == AskedAgain(client)
           d == [b EXCEPT !.conn = @ + 1]
           q == <<SyncOf(d.asked, d.at)>>
           new == [link[n] EXCEPT !.up = "open", !.out = q]
<1>0. /\ DeviceTypes /\ RecordedOnce /\ LinksInTurn /\ OwedInOrder /\ Following /\ ShowsFirst /\ StreamLeads
      /\ client \in Clients
  BY DEF DeviceIInv, DeviceTypes
<1>1. /\ client.phase = "waiting" /\ client.conn < MaxLinks /\ client' = d
      /\ link' = [link EXCEPT ![n] = [@ EXCEPT !.up = "open", !.out = q]]
      /\ history' = history /\ over' = over /\ readTo' = readTo /\ hub' = hub
  <2>1. d.conn = n
    BY <1>0, AskAgainType DEF Clients
  <2> QED BY <2>1 DEF ClientConnects
<1>2. n \in Links /\ n \in 0..MaxLinks /\ n > client.conn /\ n # 0
  BY <1>0, <1>1, DeviceAssumption DEF Links, Clients
<1>3. /\ d \in Clients /\ d.conn = n /\ d.kind = client.kind /\ d.at = client.at /\ d.shown = client.shown
      /\ d.reads = client.reads /\ d.phase = "syncing" /\ d.asked = client.syncs + 1
  <2>1. /\ b \in Clients /\ b.phase = "syncing"
        /\ b.kind = client.kind /\ b.conn = client.conn /\ b.at = client.at
        /\ b.shown = client.shown /\ b.sent = client.sent /\ b.reads = client.reads
    BY <1>0, AskAgainType
  <2>2. b.asked = client.syncs + 1
    BY <1>0 DEF AskedAgain, Clients
  <2> HIDE DEF b
  <2> QED BY <1>2, <2>1, <2>2 DEF Clients
<1>4. q \in Seq(Commands) /\ \A i \in DOMAIN q : i = 1 /\ q[i].body = client.at
  <2>1. SyncOf(d.asked, d.at) \in Commands /\ SyncOf(d.asked, d.at).body = client.at
    BY <1>0, <1>3, AskAgainType DEF SyncOf
  <2> HIDE DEF d
  <2> QED BY <2>1
<1> HIDE DEF b, d, q
<1>5. link[n] = [up |-> "unused", bound |-> FALSE, heard |-> TRUE, code |-> "none", out |-> <<>>, in |-> <<>>]
  BY <1>0, <1>2 DEF LinksInTurn
<1>6. link' = [link EXCEPT ![n] = new]
  <2>1. link \in [Links -> LinkStates]
    BY <1>0 DEF DeviceTypes
  <2> QED BY <1>1, <1>2, <2>1
<1>7. new \in LinkStates
  <2>1. link[n] \in LinkStates
    BY <1>0, <1>2 DEF DeviceTypes
  <2> QED BY <1>4, <2>1 DEF LinkStates
<1>8. link' \in [Links -> LinkStates] /\ link'[n] = new /\ \A k \in Links : k # n => link'[k] = link[k]
  BY <1>0, <1>2, <1>6, <1>7 DEF DeviceTypes
<1>9. new.up = "open" /\ new.bound = FALSE /\ new.heard = TRUE /\ new.in = <<>> /\ new.out = q
  <2>1. link[n] \in LinkStates /\ link[n].bound = FALSE /\ link[n].heard = TRUE /\ link[n].in = <<>>
    BY <1>0, <1>2, <1>5 DEF DeviceTypes
  <2> HIDE <1>5
  <2> QED BY <2>1 DEF LinkStates
<1> HIDE DEF new
<1>10. Active' /\ In' = <<>> /\ Out' = q /\ Up' = "open" /\ ~link'[client'.conn].bound /\ link'[client'.conn].heard
  BY <1>1, <1>3, <1>8, <1>9 DEF Active, In, Out, Up
<1>11. DeviceTypes'
  BY <1>0, <1>1, <1>3, <1>8 DEF DeviceTypes
<1>12. RecordedOnce' /\ OwedInOrder' /\ ShowsFirst'
  <2>1. RecordedOnce'
    BY <1>0, <1>1 DEF RecordedOnce, Places
  <2>2. ShowsFirst'
    BY <1>0, <1>1, <1>3 DEF ShowsFirst, ShownInOrder
  <2>3. OwedInOrder'
    BY <1>0, <1>1 DEF OwedInOrder, Able
  <2> QED BY <2>1, <2>2, <2>3
<1>13. LinksInTurn'
  <2>1. ASSUME NEW k \in Links, k > n
        PROVE  link'[k] = [up |-> "unused", bound |-> FALSE, heard |-> TRUE, code |-> "none", out |-> <<>>, in |-> <<>>]
    <3>1. k # n /\ k > client.conn
      BY <1>0, <2>1 DEF Links, Clients
    <3> QED BY <1>0, <1>8, <3>1 DEF LinksInTurn
  <2>2. ASSUME NEW k \in Links PROVE link'[k].bound <=> hub'.sink = k
    <3>1. link'[k].bound = link[k].bound
      <4>1. CASE k = n
        <5>1. link[n].bound = FALSE
          BY <1>5
        <5> QED BY <1>8, <1>9, <4>1, <5>1
      <4>2. CASE k # n
        BY <1>8, <4>2
      <4> QED BY <4>1, <4>2
    <3> QED BY <1>0, <1>1, <3>1 DEF LinksInTurn
  <2>3. ASSUME NEW k \in Links, ~link'[k].bound, link'[k].up = "open" PROVE link'[k].in = <<>>
    BY <1>0, <1>8, <1>9, <2>3 DEF LinksInTurn
  <2>4. \A k \in Links : link'[k].bound => link'[k].up # "unused"
    BY <1>0, <1>8, <1>9 DEF LinksInTurn
  <2> QED BY <1>1, <1>2, <1>3, <1>10, <2>1, <2>2, <2>3, <2>4 DEF LinksInTurn
<1>14. Following'
  <2>1. client'.at[1] <= hub'.epoch
    BY <1>0, <1>1, <1>3 DEF Following
  <2>2. /\ \A i \in DOMAIN In' :
            /\ In'[i].at[1] \in 1..hub'.epoch /\ Ext(In'[i].ev) <= Len(history')
            /\ In'[i].at[1] = hub'.epoch => (In'[i].ev.kind = "unavailable" <=> ~Able')
            /\ Up' = "open" => In'[i].at[1] = hub'.epoch
        /\ Refusals(In') \/ Chained(In', client'.at)
        /\ Coherent(Bodies(In'), 0, Len(client'.shown))
    BY <1>10, NothingComes
  <2>3. \A i \in DOMAIN Out' : Out'[i].kind = "sync" /\ Out'[i].body # Nowhere =>
            i = 1 /\ Out'[i].body = client'.at /\ ~link'[client'.conn].bound /\ In' = <<>>
    BY <1>1, <1>3, <1>4, <1>10
  <2>4. ~Live'
    BY <1>10 DEF Live
  <2> QED BY <2>1, <2>2, <2>3, <2>4 DEF Following
<1>15. StreamLeads'
  <2>1. PICK full \in Seq(StreamEvents) : StreamOf(full)
    BY <1>0 DEF StreamLeads
  <2>2. (Able' <=> Able)
    BY <1>1 DEF Able
  <2>3. \A i \in DOMAIN In' : FALSE
    BY <1>10
  <2>4. StreamOf(full)'
    BY <1>1, <1>3, <2>1, <2>2, <2>3 DEF StreamOf
  <2> QED BY <2>4 DEF StreamLeads
<1>16. SendsAreOnTheWay' /\ AppReadsAreOnTheWay'
  BY <1>1, <1>3 DEF SendsAreOnTheWay, AppReadsAreOnTheWay, ReadsAreOnTheWay, Serving
<1> QED BY <1>11, <1>12, <1>13, <1>14, <1>15, <1>16 DEF DeviceIInv

-----------------------------------------------------------------------------
\* What goes wrong: connections that end, and a server that starts again.

\* The device leaves its connection.
LEMMA Left ==
  ASSUME DeviceIInv, Active, NEW d \in Clients, client' = d, d.phase \in {"waiting", "replaced"},
         d.kind = client.kind, d.conn = client.conn, d.at = client.at, d.shown = client.shown, d.reads = client.reads,
         link' \in [Links -> LinkStates],
         \A k \in Links : /\ link'[k].up = link[k].up /\ link'[k].bound = link[k].bound
                          /\ link'[k].in = link[k].in \/ link'[k].in = <<>>
                          /\ k # client.conn => link'[k] = link[k],
         history' = history, over' = over, readTo' = readTo, hub' = hub
  PROVE  DeviceIInv'
<1>0. /\ DeviceTypes /\ RecordedOnce /\ LinksInTurn /\ OwedInOrder /\ Following /\ ShowsFirst /\ StreamLeads
  BY DEF DeviceIInv
<1>1. ~Active' /\ (Able' <=> Able)
  BY DEF Active, Able
<1>2. DeviceTypes'
  BY <1>0 DEF DeviceTypes
<1>3. RecordedOnce' /\ OwedInOrder' /\ ShowsFirst'
  <2>1. RecordedOnce'
    BY <1>0 DEF RecordedOnce, Places
  <2>2. ShowsFirst'
    BY <1>0 DEF ShowsFirst, ShownInOrder
  <2>3. OwedInOrder'
    BY <1>0 DEF OwedInOrder, Able
  <2> QED BY <2>1, <2>2, <2>3
<1>4. LinksInTurn'
  <2>1. ASSUME NEW k \in Links, k > client.conn
        PROVE  link'[k] = [up |-> "unused", bound |-> FALSE, heard |-> TRUE, code |-> "none", out |-> <<>>, in |-> <<>>]
    <3>1. k # client.conn
      BY <1>0, <2>1 DEF DeviceTypes, Clients, Links
    <3> QED BY <1>0, <2>1, <3>1 DEF LinksInTurn
  <2>2. \A k \in Links : /\ link'[k].bound <=> hub'.sink = k
                         /\ link'[k].bound => link'[k].up # "unused"
    BY <1>0 DEF LinksInTurn
  <2>3. ASSUME NEW k \in Links, ~link'[k].bound, link'[k].up = "open" PROVE link'[k].in = <<>>
    <3>1. link[k].in = <<>>
      BY <1>0, <2>3 DEF LinksInTurn
    <3> QED BY <3>1
  <2>4. client'.phase # "ready"
    OBVIOUS
  <2> QED BY <1>1, <2>1, <2>2, <2>3, <2>4 DEF LinksInTurn
<1>5. Following'
  BY <1>0, <1>1 DEF Following, Live
<1>6. StreamLeads'
  <2>1. PICK full \in Seq(StreamEvents) : StreamOf(full)
    BY <1>0 DEF StreamLeads
  <2>2. StreamOf(full)'
    BY <1>1, <2>1 DEF StreamOf
  <2> QED BY <2>2 DEF StreamLeads
<1>7. SendsAreOnTheWay' /\ AppReadsAreOnTheWay'
  BY DEF SendsAreOnTheWay, AppReadsAreOnTheWay, ReadsAreOnTheWay, Serving
<1> QED BY <1>2, <1>3, <1>4, <1>5, <1>6, <1>7 DEF DeviceIInv

\* A cut sequence is a sequence, and the beginning of the whole.
LEMMA CutShort ==
  ASSUME NEW S, NEW s \in Seq(S), NEW p \in Prefixes(s)
  PROVE  /\ p \in Seq(S) /\ Len(p) \in Nat /\ Len(s) \in Nat /\ Len(p) <= Len(s)
         /\ DOMAIN p = 1..Len(p) /\ DOMAIN s = 1..Len(s) /\ \A i \in 1..Len(p) : p[i] = s[i]
<1>1. Len(s) \in Nat /\ DOMAIN s = 1..Len(s)
  BY LenProperties
<1>2. PICK l \in 0..Len(s) : p = SubSeq(s, 1, l)
  BY DEF Prefixes
<1>3. \A i \in 1..l : s[i] \in S
  BY <1>1, ElementOfSeq
<1>4. /\ SubSeq(s, 1, l) \in Seq(S) /\ Len(SubSeq(s, 1, l)) = (IF 1 <= l THEN l - 1 + 1 ELSE 0)
      /\ \A i \in 1..(l - 1 + 1) : SubSeq(s, 1, l)[i] = s[1 + i - 1]
  BY <1>1, <1>3, SubSeqProperties
<1>5. Len(p) = l
  BY <1>1, <1>2, <1>4
<1>6. p \in Seq(S) /\ DOMAIN p = 1..Len(p)
  BY <1>2, <1>4, LenProperties
<1>7. ASSUME NEW i \in 1..l PROVE p[i] = s[i]
  BY <1>1, <1>2, <1>4
<1> QED BY <1>1, <1>5, <1>6, <1>7

LEMMA GivenUp ==
  ASSUME DeviceIInv, ClientDrops PROVE DeviceIInv'
<1> DEFINE d == [client EXCEPT !.phase = "waiting", !.asked = 0]
           c == client.conn
<1>0. DeviceTypes /\ LinksInTurn /\ Following /\ client \in Clients /\ link \in [Links -> LinkStates]
  BY DEF DeviceIInv, DeviceTypes
<1>1. /\ Active /\ client' = d
      /\ history' = history /\ over' = over /\ readTo' = readTo /\ hub' = hub
  BY DEF ClientDrops
<1>2. PICK kept \in Prefixes(link[c].out) :
        link' = [link EXCEPT ![c] = [@ EXCEPT !.out = kept, !.in = <<>>, !.heard = FALSE]]
  BY DEF ClientDrops
<1>3. c \in Links /\ link[c] \in LinkStates /\ link[c].out \in Seq(Commands)
  BY <1>0, <1>1, FollowingChannel DEF Out
<1>4. kept \in Seq(Commands)
  BY <1>3, CutShort
<1> DEFINE x == [link[c] EXCEPT !.out = kept, !.in = <<>>, !.heard = FALSE]
<1>5. x \in LinkStates /\ x.up = link[c].up /\ x.bound = link[c].bound /\ x.in = <<>>
  <2> DEFINE none == <<>>
             y == [link[c] EXCEPT !.out = kept, !.in = none, !.heard = FALSE]
  <2>1. none \in Seq(SentEvents)
    OBVIOUS
  <2> HIDE DEF none
  <2>2. y \in LinkStates /\ y.up = link[c].up /\ y.bound = link[c].bound /\ y.in = none
    BY <1>3, <1>4, <2>1 DEF LinkStates
  <2> QED BY <2>2 DEF none
<1>6. link' = [link EXCEPT ![c] = x]
  BY <1>0, <1>2, <1>3
<1> HIDE DEF x
<1>7. /\ link' \in [Links -> LinkStates]
      /\ \A k \in Links : /\ link'[k].up = link[k].up /\ link'[k].bound = link[k].bound
                          /\ link'[k].in = link[k].in \/ link'[k].in = <<>>
                          /\ k # c => link'[k] = link[k]
  <2>1. link' \in [Links -> LinkStates] /\ link'[c] = x /\ \A k \in Links : k # c => link'[k] = link[k]
    BY <1>0, <1>3, <1>5, <1>6
  <2> QED BY <1>5, <2>1
<1>8. /\ d \in Clients /\ d.phase = "waiting"
      /\ d.kind = client.kind /\ d.conn = c /\ d.at = client.at /\ d.shown = client.shown /\ d.reads = client.reads
  BY <1>0 DEF Clients
<1> HIDE DEF d, c
<1>9. d.phase \in {"waiting", "replaced"}
  BY <1>8
<1> QED BY <1>1, <1>7, <1>8, <1>9, Left DEF c

LEMMA HeardClose ==
  ASSUME DeviceIInv, ClientHearsClose PROVE DeviceIInv'
<1> DEFINE ph == IF link[client.conn].code = "replaced" THEN "replaced" ELSE "waiting"
           d == [client EXCEPT !.asked = 0, !.phase = ph]
           c == client.conn
           x == [link[c] EXCEPT !.heard = FALSE]
<1>0. DeviceTypes /\ LinksInTurn /\ Following /\ client \in Clients /\ link \in [Links -> LinkStates]
  BY DEF DeviceIInv, DeviceTypes
<1>1. /\ Active /\ client' = d /\ link' = [link EXCEPT ![c].heard = FALSE]
      /\ history' = history /\ over' = over /\ readTo' = readTo /\ hub' = hub
  BY DEF ClientHearsClose
<1>2. c \in Links /\ link[c] \in LinkStates
  BY <1>0, <1>1, FollowingChannel
<1>3. x \in LinkStates /\ x.up = link[c].up /\ x.bound = link[c].bound /\ x.in = link[c].in
  BY <1>2 DEF LinkStates
<1>4. link' = [link EXCEPT ![c] = x]
  BY <1>0, <1>1, <1>2
<1> HIDE DEF x
<1>5. /\ link' \in [Links -> LinkStates]
      /\ \A k \in Links : /\ link'[k].up = link[k].up /\ link'[k].bound = link[k].bound
                          /\ link'[k].in = link[k].in \/ link'[k].in = <<>>
                          /\ k # c => link'[k] = link[k]
  <2>1. link' \in [Links -> LinkStates] /\ link'[c] = x /\ \A k \in Links : k # c => link'[k] = link[k]
    BY <1>0, <1>2, <1>3, <1>4
  <2> QED BY <1>3, <2>1
<1>6. ph \in {"waiting", "replaced"}
  OBVIOUS
<1> HIDE DEF ph
<1>7. /\ d \in Clients /\ d.phase \in {"waiting", "replaced"}
      /\ d.kind = client.kind /\ d.conn = c /\ d.at = client.at /\ d.shown = client.shown /\ d.reads = client.reads
  BY <1>0, <1>6 DEF Clients
<1> HIDE DEF d, c
<1> QED BY <1>1, <1>5, <1>7, Left DEF c

\* The server gives a connection up.
LEMMA Closed ==
  ASSUME DeviceIInv, NEW n \in Links, ServerCloses(n) PROVE DeviceIInv'
<1> DEFINE c == client.conn
           x == [link[n] EXCEPT !.up = "closing", !.code = "closed"]
<1>0. /\ DeviceTypes /\ RecordedOnce /\ LinksInTurn /\ OwedInOrder /\ Following /\ ShowsFirst /\ StreamLeads
      /\ SendsAreOnTheWay /\ AppReadsAreOnTheWay
  BY DEF DeviceIInv
<1>1. /\ link[n].up = "open" /\ client' = client /\ hub' = hub
      /\ history' = history /\ over' = over /\ readTo' = readTo
      /\ link' = [link EXCEPT ![n].up = "closing", ![n].code = "closed"]
  BY DEF ServerCloses
<1>2. link[n] \in LinkStates /\ link \in [Links -> LinkStates]
  BY <1>0 DEF DeviceTypes
<1>3. x \in LinkStates /\ x.up = "closing" /\ x.bound = link[n].bound /\ x.in = link[n].in /\ x.out = link[n].out
      /\ x.heard = link[n].heard
  BY <1>2 DEF LinkStates
<1>4. link' = [link EXCEPT ![n] = x]
  BY <1>1, <1>2
<1> HIDE DEF x
<1>5. link' \in [Links -> LinkStates] /\ link'[n] = x /\ \A k \in Links : k # n => link'[k] = link[k]
  BY <1>2, <1>3, <1>4
<1>6. \A k \in Links : /\ link'[k].bound = link[k].bound /\ link'[k].in = link[k].in /\ link'[k].out = link[k].out
                       /\ link'[k].heard = link[k].heard
                       /\ link'[k].up = "open" => link[k].up = "open"
                       /\ link'[k].up = "unused" => link[k].up = "unused"
  BY <1>3, <1>5
<1>7. (Active' <=> Active) /\ (Able' <=> Able)
  BY <1>1 DEF Active, Able
<1>8. DeviceTypes'
  BY <1>0, <1>1, <1>5 DEF DeviceTypes
<1>9. RecordedOnce' /\ OwedInOrder' /\ ShowsFirst'
  <2>1. RecordedOnce'
    BY <1>0, <1>1 DEF RecordedOnce, Places
  <2>2. ShowsFirst'
    BY <1>0, <1>1 DEF ShowsFirst, ShownInOrder
  <2>3. OwedInOrder'
    BY <1>0, <1>1 DEF OwedInOrder, Able
  <2> QED BY <2>1, <2>2, <2>3
<1>10. Active => c \in Links
  BY <1>0 DEF LinksInTurn, DeviceTypes, Clients, Links
<1>11. Active => /\ In' = In /\ Out' = Out /\ link'[c].bound = link[c].bound /\ link'[c].heard = link[c].heard
                 /\ Up' = "open" => Up = "open"
                 /\ Up' = "unused" => Up = "unused"
  BY <1>1, <1>6, <1>10, ZenonT(30) DEF In, Out, Up
<1>12. LinksInTurn'
  <2>1. ASSUME NEW k \in Links, k > c
        PROVE  link'[k] = [up |-> "unused", bound |-> FALSE, heard |-> TRUE, code |-> "none", out |-> <<>>, in |-> <<>>]
    <3>1. link[k] = [up |-> "unused", bound |-> FALSE, heard |-> TRUE, code |-> "none", out |-> <<>>, in |-> <<>>]
      BY <1>0, <2>1 DEF LinksInTurn
    <3>2. k # n
      BY <1>1, <3>1
    <3> QED BY <1>5, <3>1, <3>2
  <2>2. ASSUME NEW k \in Links PROVE link'[k].bound <=> hub'.sink = k
    BY <1>0, <1>1, <1>6 DEF LinksInTurn
  <2>6. ASSUME NEW k \in Links PROVE link'[k].bound => link'[k].up # "unused"
    <3>1. link[k].bound => link[k].up # "unused"
      BY <1>0 DEF LinksInTurn
    <3> QED BY <1>6, <3>1
  <2>5. ASSUME NEW k \in Links, ~link'[k].bound, link'[k].up = "open" PROVE link'[k].in = <<>>
    BY <1>0, <1>6, <2>5 DEF LinksInTurn
  <2>3. Active' => client'.conn # 0 /\ link'[client'.conn].heard /\ Up' # "unused"
    BY <1>0, <1>1, <1>7, <1>11 DEF LinksInTurn
  <2>4. client'.phase = "ready" /\ Up' = "open" => Able' /\ link'[client'.conn].bound
    <3>1. client.phase = "ready" => Active
      BY DEF Active
    <3> QED BY <1>0, <1>1, <1>7, <1>11, <3>1 DEF LinksInTurn
  <2> QED BY <1>1, <2>1, <2>2, <2>3, <2>4, <2>5, <2>6 DEF LinksInTurn
<1>13. Live' => Live
  BY <1>1, <1>7, <1>11 DEF Live
<1>14. Following'
  <2>1. CASE ~Active
    BY <1>0, <1>1, <1>7, <2>1 DEF Following, Live
  <2>2. CASE Active
    <3>1. /\ \A i \in DOMAIN In' :
              /\ In'[i].at[1] \in 1..hub'.epoch /\ Ext(In'[i].ev) <= Len(history')
              /\ In'[i].at[1] = hub'.epoch => (In'[i].ev.kind = "unavailable" <=> ~Able')
              /\ Up' = "open" => In'[i].at[1] = hub'.epoch
          /\ Refusals(In') \/ Chained(In', client'.at)
          /\ Coherent(Bodies(In'), 0, Len(client'.shown))
          /\ client'.at[1] <= hub'.epoch
      BY <1>0, <1>1, <1>7, <1>11, <2>2 DEF Following
    <3>2. \A i \in DOMAIN Out' : Out'[i].kind = "sync" /\ Out'[i].body # Nowhere =>
            i = 1 /\ Out'[i].body = client'.at /\ ~link'[client'.conn].bound /\ In' = <<>>
      BY <1>0, <1>1, <1>11, <2>2 DEF Following
    <3>3. Live' => /\ Reached(In', client'.at) = <<hub'.epoch, hub'.last>>
                   /\ Complete(Bodies(In'), 0, Len(client'.shown), Len(history'), hub'.owed)
      BY <1>0, <1>1, <1>11, <1>13, <2>2 DEF Following
    <3> QED BY <3>1, <3>2, <3>3 DEF Following
  <2> QED BY <2>1, <2>2
<1>15. StreamLeads'
  <2>1. PICK full \in Seq(StreamEvents) : StreamOf(full)
    BY <1>0 DEF StreamLeads
  <2>2. StreamOf(full)'
    BY <1>1, <1>7, <1>11, <2>1 DEF StreamOf
  <2> QED BY <2>2 DEF StreamLeads
<1>16. ASSUME Serving' PROVE Serving /\ \A id : UnderWay(id) => UnderWay(id)'
  <2>1. Active /\ client.phase = "ready"
    BY <1>1, <1>16 DEF Serving, Active
  <2>2. Serving
    BY <1>1, <1>11, <1>16, <2>1 DEF Serving, Up
  <2> QED BY <1>1, <1>11, <2>1, <2>2 DEF UnderWay, In, Out
<1>17. SendsAreOnTheWay' /\ AppReadsAreOnTheWay'
  BY <1>0, <1>1, <1>16 DEF SendsAreOnTheWay, AppReadsAreOnTheWay, ReadsAreOnTheWay
<1> QED BY <1>8, <1>9, <1>12, <1>14, <1>15, <1>17 DEF DeviceIInv

\* A cut channel is what it was, as far as it goes.
LEMMA CutChannel ==
  ASSUME NEW in \in Seq(SentEvents), NEW p \in Prefixes(in), NEW h, NEW up, NEW H, NEW at, NEW k \in Nat,
         Channel(in, h, up, H), Refusals(in) \/ Chained(in, at), Coherent(Bodies(in), 0, k)
  PROVE  /\ p \in Seq(SentEvents) /\ Channel(p, h, up, H) /\ (Refusals(p) \/ Chained(p, at))
         /\ Coherent(Bodies(p), 0, k) /\ \A i \in DOMAIN p : i \in DOMAIN in /\ p[i] = in[i]
<1>1. /\ p \in Seq(SentEvents) /\ Len(p) \in Nat /\ Len(in) \in Nat /\ Len(p) <= Len(in)
      /\ DOMAIN p = 1..Len(p) /\ DOMAIN in = 1..Len(in) /\ \A i \in 1..Len(p) : p[i] = in[i]
  BY CutShort
<1>2. ASSUME NEW i \in DOMAIN p PROVE i \in DOMAIN in /\ p[i] = in[i]
  BY <1>1
<1>3. Channel(p, h, up, H)
  BY <1>2 DEF Channel
<1>4. Refusals(in) => Refusals(p)
  BY <1>2 DEF Refusals
<1>5. ASSUME Chained(in, at) PROVE Chained(p, at)
  <2>1. ASSUME NEW i \in DOMAIN p
        PROVE  /\ p[i].ev.kind # "unavailable"
               /\ \/ p[i].ev.kind = "snapshot"
                  \/ p[i].at = <<(IF i = 1 THEN at ELSE p[i - 1].at)[1], (IF i = 1 THEN at ELSE p[i - 1].at)[2] + 1>>
    <3>1. i \in DOMAIN in /\ p[i] = in[i]
      BY <1>2
    <3>2. i # 1 => p[i - 1] = in[i - 1]
      <4>1. i # 1 => i - 1 \in 1..Len(p)
        BY <1>1
      <4> QED BY <1>1, <4>1
    <3> QED BY <1>5, <3>1, <3>2 DEF Chained
  <2> QED BY <2>1 DEF Chained
<1>6. Coherent(Bodies(p), 0, k)
  <2> DEFINE S == Bodies(in)
             T == Bodies(p)
  <2>1. /\ S \in Seq(StreamEvents) /\ Len(S) = Len(in) /\ \A i \in 1..Len(in) : S[i] = in[i].ev
        /\ T \in Seq(StreamEvents) /\ Len(T) = Len(p) /\ \A i \in 1..Len(p) : T[i] = p[i].ev
    BY <1>1, BodiesOfTexts
  <2>2. Coherent(S, 0, k)
    OBVIOUS
  <2> HIDE DEF S, T
  <2>3. ASSUME NEW i \in 1..Len(T) PROVE T[i] = S[i]
    <3>1. i \in 1..Len(p) /\ i \in 1..Len(in) /\ i \in DOMAIN p
      BY <1>1, <2>1
    <3> QED BY <1>2, <2>1, <3>1
  <2>4. Len(T) <= Len(S)
    BY <1>1, <2>1
  <2>5. Coherent(T, 0, k)
    BY <2>1, <2>2, <2>3, <2>4, CoherentCut
  <2> QED BY <2>5 DEF T
<1> QED BY <1>1, <1>2, <1>3, <1>4, <1>5, <1>6

\* A connection that is gone.
LEMMA GoneLink ==
  ASSUME NEW l \in LinkStates, NEW kept \in Seq(SentEvents)
  PROVE  LET x == Gone(l, kept)
         IN /\ x \in LinkStates /\ x.up = "gone" /\ x.bound = FALSE /\ x.out = <<>> /\ x.in = kept /\ x.heard = l.heard
<1> DEFINE cd == IF l.code = "replaced" /\ kept = l.in THEN l.code ELSE "closed"
           none == <<>>
           x == [l EXCEPT !.up = "gone", !.bound = FALSE, !.out = none, !.in = kept, !.code = cd]
<1>1. Gone(l, kept) = x
  BY DEF Gone
<1>2. cd \in {"none", "replaced", "closed"} /\ none \in Seq(Commands)
  BY DEF LinkStates
<1> HIDE DEF cd, none
<1>3. x \in LinkStates /\ x.up = "gone" /\ x.bound = FALSE /\ x.out = none /\ x.in = kept /\ x.heard = l.heard
  BY <1>2 DEF LinkStates
<1> QED BY <1>1, <1>3 DEF none

LEMMA Lost ==
  ASSUME DeviceIInv, NEW n \in Links, ServerLoses(n) PROVE DeviceIInv'
<1> DEFINE c == client.conn
           sk == IF hub.sink = n THEN 0 ELSE hub.sink
<1>0. /\ DeviceTypes /\ RecordedOnce /\ LinksInTurn /\ OwedInOrder /\ Following /\ ShowsFirst /\ StreamLeads
      /\ SendsAreOnTheWay /\ AppReadsAreOnTheWay /\ hub \in Hubs
  BY DEF DeviceIInv, DeviceTypes
<1>1. /\ link[n].up \in {"open", "closing"} /\ client' = client
      /\ history' = history /\ over' = over /\ readTo' = readTo /\ hub' = [hub EXCEPT !.sink = sk]
  BY DEF ServerLoses
<1>2. PICK kept \in Prefixes(link[n].in) : link' = [link EXCEPT ![n] = Gone(@, kept)]
  BY DEF ServerLoses
<1>3. link[n] \in LinkStates /\ link \in [Links -> LinkStates] /\ link[n].in \in Seq(SentEvents)
  BY <1>0 DEF DeviceTypes, LinkStates
<1>4. kept \in Seq(SentEvents)
  BY <1>3, CutShort
<1> DEFINE x == Gone(link[n], kept)
<1>5. /\ x \in LinkStates /\ x.up = "gone" /\ x.bound = FALSE /\ x.out = <<>> /\ x.in = kept
      /\ x.heard = link[n].heard
  BY <1>3, <1>4, GoneLink
<1>6. link' = [link EXCEPT ![n] = x]
  BY <1>2, <1>3
<1> HIDE DEF x
<1>7. link' \in [Links -> LinkStates] /\ link'[n] = x /\ \A k \in Links : k # n => link'[k] = link[k]
  BY <1>3, <1>5, <1>6
<1>8. sk \in 0..MaxLinks /\ (sk = hub.sink \/ sk = 0)
  <2>1. MaxLinks \in Nat /\ hub.sink \in 0..MaxLinks
    BY <1>0, DeviceAssumption DEF Hubs
  <2> QED BY <2>1
<1>9. /\ hub' \in Hubs /\ hub'.epoch = hub.epoch /\ hub'.loop = hub.loop /\ hub'.last = hub.last
      /\ hub'.log = hub.log /\ hub'.owed = hub.owed /\ hub'.sink = sk
  <2> HIDE DEF sk
  <2> QED BY <1>0, <1>1, <1>8 DEF Hubs
<1>10. (Active' <=> Active) /\ (Able' <=> Able)
  BY <1>1, <1>9 DEF Active, Able
<1>11. DeviceTypes'
  BY <1>0, <1>1, <1>7, <1>9 DEF DeviceTypes
<1>12. RecordedOnce' /\ OwedInOrder' /\ ShowsFirst'
  <2>1. RecordedOnce'
    BY <1>0, <1>1 DEF RecordedOnce, Places
  <2>2. ShowsFirst'
    BY <1>0, <1>1 DEF ShowsFirst, ShownInOrder
  <2>3. OwedInOrder'
    BY <1>0, <1>1, <1>9, <1>10 DEF OwedInOrder
  <2> QED BY <2>1, <2>2, <2>3
<1>13. Active => c \in Links
  BY <1>0 DEF LinksInTurn, DeviceTypes, Clients, Links
<1>14. LinksInTurn'
  <2>1. ASSUME NEW k \in Links, k > c
        PROVE  link'[k] = [up |-> "unused", bound |-> FALSE, heard |-> TRUE, code |-> "none", out |-> <<>>, in |-> <<>>]
    <3>1. link[k] = [up |-> "unused", bound |-> FALSE, heard |-> TRUE, code |-> "none", out |-> <<>>, in |-> <<>>]
      BY <1>0, <2>1 DEF LinksInTurn
    <3>2. k # n
      BY <1>1, <3>1
    <3> QED BY <1>7, <3>1, <3>2
  <2>2. ASSUME NEW k \in Links PROVE link'[k].bound <=> hub'.sink = k
    <3>1. CASE k = n
      <4>1. link'[k].bound = FALSE /\ n # 0
        BY <1>5, <1>7, <3>1 DEF Links
      <4>2. hub'.sink # n
        BY <1>9, <4>1
      <4> QED BY <3>1, <4>1, <4>2
    <3>2. CASE k # n
      <4>1. link'[k].bound = link[k].bound /\ (link[k].bound <=> hub.sink = k) /\ k # 0
        BY <1>0, <1>7, <3>2 DEF LinksInTurn, Links
      <4> QED BY <1>9, <3>2, <4>1
    <3> QED BY <3>1, <3>2
  <2>3. ASSUME NEW k \in Links PROVE link'[k].bound => link'[k].up # "unused"
    BY <1>0, <1>5, <1>7 DEF LinksInTurn
  <2>4. ASSUME NEW k \in Links, ~link'[k].bound, link'[k].up = "open" PROVE link'[k].in = <<>>
    <3>1. k # n
      BY <1>5, <1>7, <2>4
    <3> QED BY <1>0, <1>7, <2>4, <3>1 DEF LinksInTurn
  <2>5. Active' => client'.conn # 0 /\ link'[client'.conn].heard /\ Up' # "unused"
    <3> SUFFICES ASSUME Active PROVE c # 0 /\ link'[c].heard /\ link'[c].up # "unused"
      BY <1>1, <1>10 DEF Up
    <3>1. c # 0 /\ link[c].heard /\ link[c].up # "unused" /\ c \in Links
      BY <1>0, <1>13 DEF LinksInTurn, Up
    <3>2. CASE c = n
      BY <1>5, <1>7, <3>1, <3>2
    <3>3. CASE c # n
      BY <1>7, <3>1, <3>3
    <3> QED BY <3>2, <3>3
  <2>6. client'.phase = "ready" /\ Up' = "open" => Able' /\ link'[client'.conn].bound
    <3> SUFFICES ASSUME client.phase = "ready", link'[c].up = "open" PROVE Able /\ link'[c].bound
      BY <1>1, <1>10 DEF Up
    <3>1. c \in Links
      BY <1>13 DEF Active
    <3>2. c # n
      BY <1>5, <1>7
    <3>3. link'[c] = link[c]
      BY <1>7, <3>1, <3>2
    <3> QED BY <1>0, <3>3 DEF LinksInTurn, Up
  <2> QED BY <1>1, <2>1, <2>2, <2>3, <2>4, <2>5, <2>6 DEF LinksInTurn
<1>15. ASSUME Active, c # n PROVE In' = In /\ Out' = Out /\ Up' = Up /\ link'[c].bound = link[c].bound
  <2>1. link'[c] = link[c]
    BY <1>7, <1>13, <1>15
  <2> QED BY <1>1, <2>1 DEF In, Out, Up
<1>16. ASSUME Active, c = n PROVE In' = kept /\ Out' = <<>> /\ Up' = "gone" /\ ~link'[c].bound /\ In = link[n].in
  BY <1>1, <1>5, <1>7, <1>16 DEF In, Out, Up
<1>17. ASSUME Active, c = n
       PROVE  /\ In' \in Seq(SentEvents) /\ Channel(In', hub, Up, Len(history)) /\ (Refusals(In') \/ Chained(In', client.at))
              /\ Coherent(Bodies(In'), 0, Len(client.shown)) /\ \A i \in DOMAIN In' : i \in DOMAIN In /\ In'[i] = In[i]
  <2>1. /\ In \in Seq(SentEvents) /\ Channel(In, hub, Up, Len(history))
        /\ (Refusals(In) \/ Chained(In, client.at))
        /\ Coherent(Bodies(In), 0, Len(client.shown)) /\ Len(client.shown) \in Nat
    BY <1>0, <1>17, FollowingChannel
  <2>2. In' \in Prefixes(In)
    BY <1>2, <1>16, <1>17
  <2> QED BY <2>1, <2>2, CutChannel
<1>18. Following'
  <2>1. client'.at[1] <= hub'.epoch
    BY <1>0, <1>1, <1>9 DEF Following
  <2>2. CASE ~Active
    BY <1>10, <2>1, <2>2 DEF Following, Live
  <2>3. CASE Active /\ c # n
    <3>1. /\ \A i \in DOMAIN In' :
              /\ In'[i].at[1] \in 1..hub'.epoch /\ Ext(In'[i].ev) <= Len(history')
              /\ In'[i].at[1] = hub'.epoch => (In'[i].ev.kind = "unavailable" <=> ~Able')
              /\ Up' = "open" => In'[i].at[1] = hub'.epoch
          /\ Refusals(In') \/ Chained(In', client'.at)
          /\ Coherent(Bodies(In'), 0, Len(client'.shown))
      BY <1>0, <1>1, <1>9, <1>10, <1>15, <2>3 DEF Following
    <3>2. \A i \in DOMAIN Out' : Out'[i].kind = "sync" /\ Out'[i].body # Nowhere =>
            i = 1 /\ Out'[i].body = client'.at /\ ~link'[client'.conn].bound /\ In' = <<>>
      BY <1>0, <1>1, <1>15, <2>3 DEF Following
    <3>3. Live' <=> Live
      BY <1>1, <1>10, <1>15, <2>3 DEF Live
    <3>4. Live' => /\ Reached(In', client'.at) = <<hub'.epoch, hub'.last>>
                   /\ Complete(Bodies(In'), 0, Len(client'.shown), Len(history'), hub'.owed)
      BY <1>0, <1>1, <1>9, <1>15, <2>3, <3>3 DEF Following
    <3> QED BY <2>1, <3>1, <3>2, <3>4 DEF Following
  <2>4. CASE Active /\ c = n
    <3>1. /\ \A i \in DOMAIN In' :
              /\ In'[i].at[1] \in 1..hub'.epoch /\ Ext(In'[i].ev) <= Len(history')
              /\ In'[i].at[1] = hub'.epoch => (In'[i].ev.kind = "unavailable" <=> ~Able')
              /\ Up' = "open" => In'[i].at[1] = hub'.epoch
          /\ Refusals(In') \/ Chained(In', client'.at)
          /\ Coherent(Bodies(In'), 0, Len(client'.shown))
      BY <1>1, <1>9, <1>10, <1>16, <1>17, <2>4 DEF Channel, Able
    <3>2. \A i \in DOMAIN Out' : FALSE
      BY <1>16, <2>4
    <3>3. ~Live'
      BY <1>16, <2>4 DEF Live
    <3> QED BY <2>1, <3>1, <3>2, <3>3 DEF Following
  <2> QED BY <2>2, <2>3, <2>4
<1>19. StreamLeads'
  <2>1. PICK full \in Seq(StreamEvents) : StreamOf(full)
    BY <1>0 DEF StreamLeads
  <2>2. Active => \A i \in DOMAIN In' : i \in DOMAIN In /\ In'[i] = In[i]
    BY <1>15, <1>17
  <2>3. Able' /\ Active' => \A i \in DOMAIN In' : In'[i].at[1] = hub'.epoch =>
          /\ In'[i].at[2] \in 1..hub'.last /\ In'[i].ev = full[In'[i].at[2]]
          /\ In'[i].ev.kind = "snapshot" => Leads(full, In'[i].at[2], Ext(In'[i].ev), Len(history'), hub'.owed)
    BY <1>1, <1>9, <1>10, <2>1, <2>2 DEF StreamOf
  <2>4. /\ Len(full) = hub'.last /\ Len(hub'.log) <= hub'.last
        /\ \A i \in 1..Len(hub'.log) : hub'.log[i] = full[hub'.last - Len(hub'.log) + i]
        /\ \A t \in 1..hub'.last : Ext(full[t]) <= Len(history') /\ (full[t].kind = "unavailable" <=> ~Able')
    BY <1>1, <1>9, <1>10, <2>1 DEF StreamOf
  <2>5. Able' /\ client'.at[1] = hub'.epoch =>
          /\ client'.at[2] <= hub'.last
          /\ Leads(full, client'.at[2], Len(client'.shown), Len(history'), hub'.owed)
    BY <1>1, <1>9, <1>10, <2>1 DEF StreamOf
  <2>6. StreamOf(full)'
    BY <2>3, <2>4, <2>5 DEF StreamOf
  <2> QED BY <2>6 DEF StreamLeads
<1>20. ASSUME Serving' PROVE Serving /\ \A id : UnderWay(id) => UnderWay(id)'
  <2>1. Active /\ client.phase = "ready"
    BY <1>1, <1>20 DEF Serving, Active
  <2>2. c # n
    BY <1>1, <1>16, <1>20, <2>1 DEF Serving
  <2>3. Serving
    BY <1>1, <1>15, <1>20, <2>1, <2>2 DEF Serving, Up
  <2> QED BY <1>1, <1>15, <2>1, <2>2, <2>3 DEF UnderWay, In, Out
<1>21. SendsAreOnTheWay' /\ AppReadsAreOnTheWay'
  BY <1>0, <1>1, <1>20 DEF SendsAreOnTheWay, AppReadsAreOnTheWay, ReadsAreOnTheWay
<1> QED BY <1>11, <1>12, <1>14, <1>18, <1>19, <1>21 DEF DeviceIInv

\* The next process: no connection is left, and what a device still hears is of the ones before.
LEMMA Restarted ==
  ASSUME DeviceIInv, Restarts PROVE DeviceIInv'
<1> DEFINE c == client.conn
<1>0. /\ DeviceTypes /\ RecordedOnce /\ LinksInTurn /\ OwedInOrder /\ Following /\ ShowsFirst /\ StreamLeads
      /\ hub \in Hubs /\ hub.epoch \in Nat \ {0}
  BY DEF DeviceIInv, DeviceTypes, Hubs
<1>1. /\ client' = client /\ history' = history /\ over' = over /\ readTo' = readTo
  BY DEF Restarts
<1>2. PICK lp \in {"able", "unable"} :
        hub' = [epoch |-> hub.epoch + 1, loop |-> lp, last |-> 0, log |-> <<>>, sink |-> 0, owed |-> <<>>, of |-> 0]
  BY DEF Restarts
<1>3. /\ hub'.epoch = hub.epoch + 1 /\ hub'.loop = lp /\ hub'.last = 0 /\ hub'.log = <<>> /\ hub'.sink = 0
      /\ hub'.owed = <<>>
  BY <1>2
<1>4. hub' \in Hubs
  <2> DEFINE none == <<>>
  <2>1. none \in Seq(StreamEvents) /\ 0 \in 0..MaxLinks /\ hub.epoch + 1 \in Nat \ {0}
    BY <1>0, DeviceAssumption
  <2>2. hub' = [epoch |-> hub.epoch + 1, loop |-> lp, last |-> 0, log |-> none, sink |-> 0, owed |-> none, of |-> 0]
    BY <1>2
  <2> HIDE DEF none
  <2> QED BY <2>1, <2>2 DEF Hubs
<1>5. PICK kept \in IF c = 0 THEN {<<>>} ELSE Prefixes(link[c].in) :
        link' = [n \in Links |-> IF link[n].up = "unused" THEN link[n]
                                 ELSE Gone(link[n], IF n = c THEN kept ELSE <<>>)]
  BY DEF Restarts
<1>6. link \in [Links -> LinkStates] /\ c \in 0..MaxLinks /\ (c # 0 => c \in Links)
  BY <1>0, DeviceAssumption DEF DeviceTypes, Clients, Links
<1>7. c # 0 => kept \in Prefixes(link[c].in) /\ link[c].in \in Seq(SentEvents) /\ kept \in Seq(SentEvents)
  <2>1. c # 0 => link[c].in \in Seq(SentEvents)
    BY <1>6 DEF LinkStates
  <2> QED BY <1>5, <2>1, CutShort
<1>8. ASSUME NEW n \in Links, link[n].up = "unused" PROVE link'[n] = link[n] /\ ~link'[n].bound
  <2>1. link'[n] = link[n]
    BY <1>5, <1>8
  <2>2. ~link[n].bound
    BY <1>0, <1>8 DEF LinksInTurn
  <2> QED BY <2>1, <2>2
<1>9. ASSUME NEW n \in Links, link[n].up # "unused"
      PROVE  /\ link'[n] \in LinkStates /\ link'[n].up = "gone" /\ link'[n].bound = FALSE /\ link'[n].out = <<>>
             /\ link'[n].heard = link[n].heard /\ (n = c => link'[n].in = kept)
  <2> DEFINE k == IF n = c THEN kept ELSE <<>>
  <2>1. link[n] \in LinkStates /\ k \in Seq(SentEvents)
    <3>1. n # 0
      BY DEF Links
    <3> QED BY <1>6, <1>7, <3>1
  <2>2. link'[n] = Gone(link[n], k)
    BY <1>5, <1>9
  <2>3. n = c => k = kept
    OBVIOUS
  <2> HIDE DEF k
  <2> DEFINE x == Gone(link[n], k)
  <2>4. x \in LinkStates /\ x.up = "gone" /\ x.bound = FALSE /\ x.out = <<>> /\ x.in = k /\ x.heard = link[n].heard
    BY <2>1, GoneLink
  <2> HIDE DEF x
  <2>5. link'[n] = x
    BY <2>2 DEF x
  <2> QED BY <2>3, <2>4, <2>5
<1>10. DeviceTypes'
  <2>1. link' \in [Links -> LinkStates]
    <3>1. \A n \in Links : link'[n] \in LinkStates
      BY <1>6, <1>8, <1>9
    <3>2. link' = [n \in Links |-> link'[n]]
      BY <1>5
    <3> QED BY <3>1, <3>2
  <2> QED BY <1>0, <1>1, <1>4, <2>1 DEF DeviceTypes
<1>11. \A n \in Links : ~link'[n].bound /\ link'[n].up # "open"
  <2>1. \A n \in Links : link[n].up = "unused" => link'[n].up = "unused"
    BY <1>8
  <2> QED BY <1>8, <1>9, <2>1
<1>12. Active' <=> Active
  BY <1>1 DEF Active
<1>13. ASSUME Active
       PROVE  /\ c \in Links /\ c # 0 /\ In' = kept /\ Up' = "gone" /\ Out' = <<>> /\ link'[c].heard /\ In = link[c].in
  <2>1. c # 0 /\ link[c].heard /\ link[c].up # "unused" /\ c \in Links
    BY <1>0, <1>6, <1>13 DEF LinksInTurn, Up
  <2> QED BY <1>1, <1>9, <2>1 DEF In, Up, Out
<1>14. RecordedOnce' /\ OwedInOrder' /\ ShowsFirst'
  <2>1. RecordedOnce'
    BY <1>0, <1>1 DEF RecordedOnce, Places
  <2>2. ShowsFirst'
    BY <1>0, <1>1 DEF ShowsFirst, ShownInOrder
  <2>3. OwedInOrder'
    BY <1>3 DEF OwedInOrder
  <2> QED BY <2>1, <2>2, <2>3
<1>15. LinksInTurn'
  <2>1. ASSUME NEW n \in Links, n > c
        PROVE  link'[n] = [up |-> "unused", bound |-> FALSE, heard |-> TRUE, code |-> "none", out |-> <<>>, in |-> <<>>]
    <3>1. link[n] = [up |-> "unused", bound |-> FALSE, heard |-> TRUE, code |-> "none", out |-> <<>>, in |-> <<>>]
      BY <1>0, <2>1 DEF LinksInTurn
    <3> QED BY <1>8, <3>1
  <2>2. ASSUME NEW n \in Links PROVE link'[n].bound <=> hub'.sink = n
    <3>1. n # 0
      BY DEF Links
    <3> QED BY <1>3, <1>11, <3>1
  <2>3. Active' => client'.conn # 0 /\ link'[client'.conn].heard /\ Up' # "unused"
    BY <1>1, <1>12, <1>13
  <2>4. client'.phase = "ready" /\ Up' = "open" => Able' /\ link'[client'.conn].bound
    <3>1. client.phase = "ready" => Active
      BY DEF Active
    <3> QED BY <1>1, <1>13, <3>1
  <2> QED BY <1>1, <1>11, <2>1, <2>2, <2>3, <2>4 DEF LinksInTurn
<1>16. ASSUME Active
       PROVE  /\ \A i \in DOMAIN In' : i \in DOMAIN In /\ In'[i] = In[i]
              /\ Refusals(In') \/ Chained(In', client.at)
              /\ Coherent(Bodies(In'), 0, Len(client.shown))
              /\ \A i \in DOMAIN In' : In'[i].at[1] \in 1..hub.epoch /\ Ext(In'[i].ev) <= Len(history)
  <2>1. /\ In \in Seq(SentEvents) /\ Channel(In, hub, Up, Len(history))
        /\ (Refusals(In) \/ Chained(In, client.at))
        /\ Coherent(Bodies(In), 0, Len(client.shown)) /\ Len(client.shown) \in Nat
    BY <1>0, <1>16, FollowingChannel
  <2>2. In' \in Prefixes(In)
    BY <1>7, <1>13, <1>16
  <2>3. /\ Channel(In', hub, Up, Len(history)) /\ (Refusals(In') \/ Chained(In', client.at))
        /\ Coherent(Bodies(In'), 0, Len(client.shown)) /\ \A i \in DOMAIN In' : i \in DOMAIN In /\ In'[i] = In[i]
    BY <2>1, <2>2, CutChannel
  <2> QED BY <2>3 DEF Channel
<1>17. ASSUME Active, NEW i \in DOMAIN In'
       PROVE  In'[i].at[1] \in 1..hub'.epoch /\ In'[i].at[1] # hub'.epoch
  <2>1. In'[i].at[1] \in 1..hub.epoch
    BY <1>16, <1>17
  <2> QED BY <1>0, <1>3, <2>1
<1>18. ~Live'
  <2>1. Active' => ~link'[client'.conn].bound
    BY <1>1, <1>11, <1>12, <1>13
  <2> QED BY <2>1 DEF Live
<1>19. client.at[1] \in Nat /\ client.at[1] <= hub.epoch /\ client.at[1] <= hub'.epoch /\ client.at[1] # hub'.epoch
  <2>1. client.at[1] \in Nat /\ client.at[1] <= hub.epoch
    BY <1>0 DEF Following, DeviceTypes, Clients, Positions
  <2> QED BY <1>0, <1>3, <2>1
<1>20. Following'
  <2>1. CASE ~Active
    BY <1>1, <1>12, <1>18, <1>19, <2>1 DEF Following
  <2>2. CASE Active
    <3>1. /\ \A i \in DOMAIN In' :
              /\ In'[i].at[1] \in 1..hub'.epoch /\ Ext(In'[i].ev) <= Len(history')
              /\ In'[i].at[1] = hub'.epoch => (In'[i].ev.kind = "unavailable" <=> ~Able')
              /\ Up' = "open" => In'[i].at[1] = hub'.epoch
          /\ Refusals(In') \/ Chained(In', client'.at)
          /\ Coherent(Bodies(In'), 0, Len(client'.shown))
      BY <1>1, <1>13, <1>16, <1>17, <2>2
    <3>2. \A i \in DOMAIN Out' : FALSE
      BY <1>13, <2>2
    <3> QED BY <1>1, <1>18, <1>19, <3>1, <3>2 DEF Following
  <2> QED BY <2>1, <2>2
<1>21. StreamLeads'
  <2> DEFINE full == <<>>
  <2>1. full \in Seq(StreamEvents) /\ Len(full) = 0
    OBVIOUS
  <2>2. /\ Len(full) = hub'.last /\ Len(hub'.log) <= hub'.last
        /\ \A i \in 1..Len(hub'.log) : FALSE
        /\ \A t \in 1..hub'.last : FALSE
    BY <1>3
  <2> HIDE DEF full
  <2>3. Active' => \A i \in DOMAIN In' : In'[i].at[1] # hub'.epoch
    BY <1>12, <1>17
  <2>4. client'.at[1] # hub'.epoch
    BY <1>1, <1>19
  <2>5. StreamOf(full)'
    BY <2>2, <2>3, <2>4 DEF StreamOf
  <2> QED BY <2>1, <2>5 DEF StreamLeads
<1>22. ~Serving'
  <2>1. client.phase = "ready" => Active
    BY DEF Active
  <2>2. client.phase = "ready" => ~link'[client'.conn].bound
    BY <1>1, <1>11, <1>13, <2>1
  <2> QED BY <1>1, <2>2 DEF Serving
<1>23. SendsAreOnTheWay' /\ AppReadsAreOnTheWay'
  BY <1>22 DEF SendsAreOnTheWay, AppReadsAreOnTheWay, ReadsAreOnTheWay
<1> QED BY <1>10, <1>14, <1>15, <1>20, <1>21, <1>23 DEF DeviceIInv

\* Nothing has happened yet.
LEMMA DeviceBegins == DeviceInit => DeviceIInv
<1> DEFINE fresh == [up |-> "unused", bound |-> FALSE, heard |-> TRUE, code |-> "none", out |-> <<>>, in |-> <<>>]
           none == <<>>
<1> SUFFICES ASSUME DeviceInit PROVE DeviceIInv
  OBVIOUS
<1>1. /\ history = none /\ over = {} /\ readTo = 0
      /\ hub = [epoch |-> 1, loop |-> "able", last |-> 0, log |-> none, sink |-> 0, owed |-> none, of |-> 0]
      /\ link = [n \in Links |-> fresh]
  BY DEF DeviceInit
<1>2. PICK kind \in Kinds :
        client = [kind |-> kind, phase |-> "waiting", conn |-> 0, at |-> Nowhere,
                  asked |-> 0, syncs |-> 0, shown |-> none, pending |-> {}, through |-> 0,
                  unread |-> 0, sent |-> [r \in Requests |-> "unsent"], reads |-> {}, tries |-> 0]
  BY DEF DeviceInit
<1>3. /\ none \in Seq(StreamEvents) /\ none \in Seq(Commands) /\ none \in Seq(SentEvents) /\ none \in Seq(Nat)
      /\ none \in Seq(Requests \cup {Reply}) /\ Len(none) = 0 /\ DOMAIN none = {}
  OBVIOUS
<1>4. Nowhere \in Positions /\ Nowhere[1] = 0 /\ 0 \in 0..MaxLinks
  BY DeviceAssumption DEF Nowhere, Positions
<1>5. fresh \in LinkStates /\ fresh.up = "unused" /\ fresh.bound = FALSE
  <2>1. fresh = [up |-> "unused", bound |-> FALSE, heard |-> TRUE, code |-> "none", out |-> none, in |-> none]
    OBVIOUS
  <2> HIDE DEF fresh, none
  <2> QED BY <1>3, <2>1 DEF LinkStates
<1> HIDE DEF fresh, none
<1>6. /\ client.phase = "waiting" /\ client.conn = 0 /\ client.at = Nowhere /\ client.shown = none /\ client.reads = {}
  BY <1>2
<1>7. ~Active /\ Able /\ ~Live /\ ~Serving
  BY <1>1, <1>6 DEF Active, Able, Live, Serving
<1>8. DeviceTypes
  <2>1. hub \in Hubs
    BY <1>1, <1>3, <1>4 DEF Hubs
  <2>2. link \in [Links -> LinkStates]
    BY <1>1, <1>5
  <2>3. client \in Clients
    <3> DEFINE sent == [r \in Requests |-> "unsent"]
               empty == {}
    <3>1. sent \in [Requests -> {"unsent", "sending", "done", "failed"}] /\ empty \in SUBSET Nat
      OBVIOUS
    <3>2. client = [kind |-> kind, phase |-> "waiting", conn |-> 0, at |-> Nowhere,
                    asked |-> 0, syncs |-> 0, shown |-> none, pending |-> empty, through |-> 0,
                    unread |-> 0, sent |-> sent, reads |-> empty, tries |-> 0]
      BY <1>2
    <3> HIDE DEF sent, empty
    <3> QED BY <1>3, <1>4, <3>1, <3>2 DEF Clients
  <2>4. IsFiniteSet(client.reads)
    BY <1>6, FS_EmptySet
  <2> QED BY <1>1, <1>3, <2>1, <2>2, <2>3, <2>4 DEF DeviceTypes
<1>9. LinksInTurn
  <2>1. \A n \in Links : link[n] = fresh /\ n # 0
    BY <1>1 DEF Links
  <2>2. hub.sink = 0
    BY <1>1
  <2>3. \A n \in Links :
          link[n] = [up |-> "unused", bound |-> FALSE, heard |-> TRUE, code |-> "none", out |-> <<>>, in |-> <<>>]
    BY <2>1 DEF fresh
  <2>4. client.phase # "ready"
    BY <1>6
  <2> QED BY <1>5, <1>7, <2>1, <2>2, <2>3, <2>4 DEF LinksInTurn
<1>10. OwedInOrder
  <2>1. hub.owed = <<>> /\ DOMAIN hub.owed = {}
    BY <1>1, <1>3 DEF none
  <2> QED BY <2>1 DEF OwedInOrder
<1>11. Following
  BY <1>1, <1>4, <1>6, <1>7 DEF Following
<1>12. RecordedOnce /\ ShowsFirst
  BY <1>1, <1>3, <1>6 DEF RecordedOnce, ShowsFirst, ShownInOrder, Places
<1>13. StreamLeads
  <2>1. client.at[1] # hub.epoch /\ hub.last = 0 /\ hub.log = none
    BY <1>1, <1>4, <1>6
  <2>2. StreamOf(none)
    BY <1>3, <1>7, <2>1 DEF StreamOf
  <2> QED BY <1>3, <2>2 DEF StreamLeads
<1>14. SendsAreOnTheWay /\ AppReadsAreOnTheWay
  BY <1>7 DEF SendsAreOnTheWay, AppReadsAreOnTheWay, ReadsAreOnTheWay
<1> QED BY <1>8, <1>9, <1>10, <1>11, <1>12, <1>13, <1>14 DEF DeviceIInv

\* Every step keeps the invariant.
LEMMA DeviceStepsKeep == DeviceIInv /\ [DeviceNext]_deviceVars => DeviceIInv'
<1> SUFFICES ASSUME DeviceIInv, [DeviceNext]_deviceVars PROVE DeviceIInv'
  OBVIOUS
<1>1. ASSUME NEW n \in Links, ServerTakes(n) PROVE DeviceIInv'
  BY <1>1, Taken
<1>2. ASSUME NEW n \in Links, ServerCloses(n) PROVE DeviceIInv'
  BY <1>2, Closed
<1>3. ASSUME NEW n \in Links, ServerLoses(n) PROVE DeviceIInv'
  BY <1>3, Lost
<1>4. ASSUME NEW p \in Places, EventCompletes(p) PROVE DeviceIInv'
  BY <1>4, Completed
<1>5. ASSUME NEW p \in Places, OtherDeviceReads(p) PROVE DeviceIInv'
  BY <1>5, OtherRead
<1>6. ASSUME NEW r \in Requests, OwnerSends(r) \/ OwnerRetries(r) PROVE DeviceIInv'
  <2>1. Writes(r, "unsent", 0) \/ Writes(r, "failed", 1)
    BY <1>6 DEF OwnerSends, OwnerRetries
  <2>2. CASE Writes(r, "unsent", 0)
    BY <2>2, Written
  <2>3. CASE Writes(r, "failed", 1)
    BY <2>3, Written
  <2> QED BY <2>1, <2>2, <2>3
<1>7. CASE ServerEmits
  BY <1>7, Emitted
<1>8. CASE SheReplies
  BY <1>8, Replied
<1>9. CASE Restarts
  BY <1>9, Restarted
<1>10. CASE ClientConnects
  BY <1>10, Connected
<1>11. CASE ClientReceives
  BY <1>11, Received
<1>12. CASE ClientAsksAgain
  BY <1>12, AskedOnceMore
<1>13. CASE ClientDrops
  BY <1>13, GivenUp
<1>14. CASE ClientHearsClose
  BY <1>14, HeardClose
<1>15. CASE OwnerReads
  BY <1>15, OwnerHasRead
<1>16. CASE UNCHANGED deviceVars
  <2>1. /\ history' = history /\ over' = over /\ readTo' = readTo /\ hub' = hub /\ link' = link /\ client' = client
    BY <1>16 DEF deviceVars
  <2>2. (Active' <=> Active) /\ (Able' <=> Able) /\ In' = In /\ Out' = Out /\ Up' = Up /\ (Live' <=> Live)
        /\ (Serving' <=> Serving)
    BY <2>1 DEF Active, Able, In, Out, Up, Live, Serving
  <2>3. DeviceTypes' /\ RecordedOnce'
    BY <2>1 DEF DeviceIInv, DeviceTypes, RecordedOnce, Places
  <2>4. LinksInTurn' /\ OwedInOrder'
    <3>1. LinksInTurn'
      BY <2>1, <2>2 DEF DeviceIInv, LinksInTurn
    <3>2. OwedInOrder'
      BY <2>1, <2>2 DEF DeviceIInv, OwedInOrder
    <3> QED BY <3>1, <3>2
  <2>5. Following'
    BY <2>1, <2>2 DEF DeviceIInv, Following
  <2>6. ShowsFirst'
    BY <2>1 DEF DeviceIInv, ShowsFirst, ShownInOrder
  <2>7. StreamLeads'
    <3>1. PICK full \in Seq(StreamEvents) : StreamOf(full)
      BY DEF DeviceIInv, StreamLeads
    <3>2. StreamOf(full)'
      BY <2>1, <2>2, <3>1 DEF StreamOf
    <3> QED BY <3>2 DEF StreamLeads
  <2>8. SendsAreOnTheWay' /\ AppReadsAreOnTheWay'
    BY <2>1, <2>2 DEF DeviceIInv, SendsAreOnTheWay, AppReadsAreOnTheWay, ReadsAreOnTheWay, UnderWay
  <2> QED BY <2>3, <2>4, <2>5, <2>6, <2>7, <2>8 DEF DeviceIInv
<1> QED BY <1>1, <1>2, <1>3, <1>4, <1>5, <1>6, <1>7, <1>8, <1>9, <1>10, <1>11, <1>12, <1>13, <1>14, <1>15, <1>16
        DEF DeviceNext

\* On an open connection of a loop that takes commands, everything on its way comes next.
LEMMA NoGap == DeviceIInv => NoGapArises
<1> SUFFICES ASSUME DeviceIInv, Able, client.phase \in {"syncing", "ready"}, Up = "open", NEW i \in DOMAIN In
    PROVE  \/ In[i].ev.kind = "snapshot"
           \/ In[i].at = <<(IF i = 1 THEN client.at ELSE In[i - 1].at)[1],
                           (IF i = 1 THEN client.at ELSE In[i - 1].at)[2] + 1>>
  BY DEF NoGapArises, In, Up
<1>1. Active
  BY DEF Active
<1>2. In[i].at[1] = hub.epoch /\ In[i].ev.kind # "unavailable"
  BY <1>1 DEF DeviceIInv, Following
<1>3. Refusals(In) \/ Chained(In, client.at)
  BY <1>1 DEF DeviceIInv, Following
<1>4. Chained(In, client.at)
  BY <1>2, <1>3 DEF Refusals
<1> QED BY <1>4 DEF Chained

\* The devices' invariant holds in every state the system reaches: whatever connections and processes end, and
\* whenever, the stream from the device's place on leads to the server's conversation.
THEOREM DeviceInvariant == DeviceSpec => []DeviceIInv
<1>1. DeviceInit => DeviceIInv
  BY DeviceBegins
<1>2. DeviceIInv /\ [DeviceNext]_deviceVars => DeviceIInv'
  BY DeviceStepsKeep
<1> QED BY <1>1, <1>2, PTL DEF DeviceSpec

\* A request is recorded once however often it is sent; a device shows the conversation from its first message,
\* each once and in order; nothing is dropped between a device and its stream; and what a synced device shows as
\* being sent, or the app as read and not answered, is on its way.
THEOREM DevicesKeepUp == DeviceSpec => []DeviceSafety
<1>1. DeviceIInv => DeviceSafety
  BY NoGap DEF DeviceIInv, ShowsFirst, DeviceSafety
<1> QED BY <1>1, DeviceInvariant, PTL

\* The read cursor moves forward only, whichever device's read is taken and however late.
THEOREM ReadingNeverGoesBack == DeviceSpec => ReadNeverBack
<1>1. DeviceIInv /\ [DeviceNext]_deviceVars => [readTo' >= readTo]_deviceVars
  <2> SUFFICES ASSUME DeviceIInv, DeviceNext PROVE readTo' >= readTo
    OBVIOUS
  <2>1. readTo \in Nat /\ link \in [Links -> LinkStates]
    BY DEF DeviceIInv, DeviceTypes
  <2>2. ASSUME NEW n \in Links, ServerTakes(n) PROVE readTo' >= readTo
    <3> DEFINE m == Head(link[n].out)
               l == [link EXCEPT ![n].out = Tail(@)]
    <3>1. link[n].out \in Seq(Commands) /\ link[n].out # <<>>
      BY <2>1, <2>2 DEF ServerTakes, LinkStates
    <3>2. m \in Commands
      BY <3>1, HeadTailProperties
    <3>3. \/ TakesSync(n, l, m) \/ TakesSend(n, l, m) \/ (m.kind = "read" /\ TakesRead(n, l, m)) \/ readTo' = readTo
      BY <2>2 DEF ServerTakes
    <3> HIDE DEF m, l
    <3>4. m.kind = "read" => m.body \in Nat
      BY <3>2 DEF Commands
    <3>5. m.kind = "read" /\ TakesRead(n, l, m) => readTo' = MarkedRead(m.body) \/ readTo' = readTo
      BY DEF TakesRead
    <3> QED BY <2>1, <3>3, <3>4, <3>5 DEF TakesSync, TakesSend, MarkedRead
  <2>3. ASSUME NEW p \in Places, OtherDeviceReads(p) PROVE readTo' >= readTo
    <3>1. p \in Nat /\ readTo' = MarkedRead(p)
      BY <2>3 DEF OtherDeviceReads, Places, DeviceIInv, DeviceTypes
    <3> QED BY <2>1, <3>1 DEF MarkedRead
  <2>4. CASE ~(\E n \in Links : ServerTakes(n)) /\ ~(\E p \in Places : OtherDeviceReads(p))
    <3>1. readTo' = readTo
      BY <2>4 DEF DeviceNext, ServerCloses, ServerLoses, ServerEmits, SheReplies, Restarts, EventCompletes,
                  ClientConnects, ClientReceives, ClientAsksAgain, ClientDrops, ClientHearsClose, OwnerSends,
                  OwnerRetries, Writes, OwnerReads
    <3> QED BY <2>1, <3>1
  <2> QED BY <2>2, <2>3, <2>4
<1> QED BY <1>1, DeviceInvariant, PTL DEF DeviceSpec, ReadNeverBack
=============================================================================
