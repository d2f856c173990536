----------------------------- MODULE DeviceSync -----------------------------
(* One device of the owner's and the server it talks to: the stream of       *)
(* numbered events the server keeps for the device, the connections the      *)
(* device opens one after another, and what the device shows of the          *)
(* conversation.  The server's side is HubLoop, DeviceStreams and ReadState; *)
(* the device's is the app's SessionMachine or the browser's mediator, which *)
(* keep to the same contract and differ where they differ here.              *)
(*                                                                           *)
(* A message is known by its place in the conversation (its row's position), *)
(* a send by its request ID, a read by the place it reads through.  The      *)
(* device has its ID already: the first registration, whose lost answer only *)
(* makes another device, is left out, and so are acknowledgements,           *)
(* approvals, routes, settings and push, which travel as reads do.           *)
EXTENDS Parts, Naturals, FiniteSets, SequencesExt

CONSTANTS Requests,    \* the messages the owner writes, by request ID
          Kinds,       \* the programs the device may run: "app", "browser"
          Capacity,    \* DEFAULT_STREAM_BUFFER_SIZE, the events kept for a replay
          MaxReplies,  \* bounds: her replies,
          MaxLinks,    \*   the connections the device opens,
          MaxEpochs,   \*   the processes of the server,
          MaxSyncs,    \*   the syncs it asks for,
          MaxTries     \*   and the owner's reads and retries on it

ASSUME DeviceAssumption ==
  /\ IsFiniteSet(Requests) /\ Kinds \subseteq {"app", "browser"}
  /\ Capacity \in Nat /\ MaxReplies \in Nat /\ MaxLinks \in Nat
  /\ MaxEpochs \in Nat /\ MaxSyncs \in Nat /\ MaxTries \in Nat

Links == 1..MaxLinks
Nowhere == <<0, 0>>     \* no position: the device follows no stream yet
Reply == "reply"

VARIABLES
  history,   \* conversation_messages: a request's message, or a reply of hers
  over,      \* the owner's messages whose event is not pending any more
  readTo,    \* read_cursor
  hub,       \* the process: its epoch, its loop, the device's stream and sink,
             \*   and the events a microtask still owes
  link,      \* each connection, and what is under way on it in each direction
  client     \* SessionMachine, or the browser's AppState

deviceVars == <<history, over, readTo, hub, link, client>>

Places == 1..Len(history)
PlaceOf(r) == CHOOSE p \in Places : history[p] = r
InHistory(r) == r \in Range(history)
PendingEvents == {p \in Places : history[p] # Reply} \ over
UnreadAfter(p) == Cardinality({q \in Places : q > p /\ history[q] = Reply})

(* ---------------------------------------------------------------------- *)
(* The stream.                                                            *)

Ev(kind, to, body) == [kind |-> kind, to |-> to, body |-> body]
Nobody == <<"none", 0>>
ReadPosition(p) == [through |-> p, unread |-> UnreadAfter(p)]

(* The events as they are sent, numbered after the ones before them. *)
Texts(h, evs) ==
  [i \in DOMAIN evs |-> [at |-> <<h.epoch, h.last + i>>, ev |-> evs[i]]]

(* The buffer keeps the newest events of the stream. *)
Kept(log) == SubSeq(log, Len(log) - Min({Capacity, Len(log)}) + 1, Len(log))

(* accept's deliver: what is sent on a connection that is no longer open is *)
(* dropped, and so is what a device that has left would have heard.         *)
Delivered(l, n, texts) ==
  IF n # 0 /\ l[n].up = "open" /\ l[n].heard
    THEN [l EXCEPT ![n].in = @ \o texts]
    ELSE l

Publishes(h, l, evs) ==
  /\ hub' = [h EXCEPT !.log = Kept(@ \o evs), !.last = @ + Len(evs)]
  /\ link' = Delivered(l, h.sink, Texts(h, evs))

(* replayAfter answers only when every event after `at` is still kept. *)
Replayable(h, at) ==
  /\ at[1] = h.epoch
  /\ at[2] <= h.last
  /\ h.last - at[2] <= Len(h.log)

(* Of the events still kept, those after `at`. *)
Missed(h, at) ==
  LET kept == Len(h.log)
  IN SubSeq(Texts([h EXCEPT !.last = @ - kept], h.log), kept - (h.last - at[2]) + 1, kept)

SnapshotEvent(to) ==
  Ev("snapshot", to, [shown |-> Len(history), pending |-> PendingEvents,
                      read |-> ReadPosition(readTo)])

(* ---------------------------------------------------------------------- *)
(* The server.                                                            *)

Able == hub.loop = "able"

(* A command's answers and the events they bring are one run of JavaScript: *)
(* a microtask emits them before anything but the rest of the same data.    *)
MayRun(n) == hub.owed = <<>> \/ hub.of = n

(* sync binds the connection to the device, closes the one bound before, *)
(* and answers with what was missed or with a snapshot.                  *)
Bound(l, n) ==
  [k \in Links |->
     IF k = n THEN [l[k] EXCEPT !.bound = TRUE]
     ELSE IF l[k].bound /\ l[k].up = "open"
       THEN [l[k] EXCEPT !.bound = FALSE, !.up = "closing", !.code = "replaced"]
       ELSE [l[k] EXCEPT !.bound = FALSE]]

TakesSync(n, l, m) ==
  LET bound == Bound(l, n)
      h == [hub EXCEPT !.sink = n]
  IN /\ \/ /\ ~Able
           /\ Publishes(h, bound, <<Ev("unavailable", m.id, 0)>>)
        \/ /\ Able
           /\ Replayable(h, m.body)
           /\ Publishes(h, Delivered(bound, n, Missed(h, m.body)),
                        <<Ev("accepted", m.id, 0)>>)
        \/ /\ Able
           /\ ~Replayable(h, m.body)
           /\ Publishes(h, bound, <<SnapshotEvent(m.id)>>)
     /\ UNCHANGED <<history, over, readTo>>

(* Mutant: an event is taken to be pending whenever it is answered for. *)
AnswerAlwaysPending(p) == [place |-> p, pending |-> TRUE]

Answer(p) == [place |-> p, pending |-> p \notin over]

(* Mutant: send records every request it gets. *)
TakesSendAlways(n, l, m) ==
  /\ Able
  /\ history' = Append(history, m.id[2])
  /\ Publishes([hub EXCEPT !.owed = Append(@, Ev("message", Nobody, [place |-> Len(history) + 1, own |-> TRUE])),
                           !.of = n],
               l, <<Ev("accepted", m.id, Answer(Len(history) + 1))>>)
  /\ UNCHANGED <<over, readTo>>

(* send records a request once, and answers one it knows with what it has. *)
TakesSend(n, l, m) ==
  LET r == m.id[2]
      p == Len(history) + 1
  IN /\ \/ /\ ~Able
           /\ Publishes(hub, l, <<Ev("unavailable", m.id, 0)>>)
           /\ UNCHANGED history
        \/ /\ Able
           /\ InHistory(r)
           /\ Publishes(hub, l, <<Ev("accepted", m.id, Answer(PlaceOf(r)))>>)
           /\ UNCHANGED history
        \/ /\ Able
           /\ ~InHistory(r)
           /\ history' = Append(history, r)
           /\ Publishes([hub EXCEPT !.owed = Append(@, Ev("message", Nobody, [place |-> p, own |-> TRUE])),
                                    !.of = n],
                        l, <<Ev("accepted", m.id, Answer(p))>>)
     /\ UNCHANGED <<over, readTo>>

(* markRead moves the cursor forward only, and tells only of a move. *)
MarkedRead(p) == IF p > readTo THEN p ELSE readTo

TakesRead(n, l, m) ==
  LET p == MarkedRead(m.body)
      told == Ev("read", Nobody, ReadPosition(p))
  IN /\ \/ /\ ~Able
           /\ Publishes(hub, l, <<Ev("unavailable", m.id, 0)>>)
           /\ UNCHANGED readTo
        \/ /\ Able
           /\ readTo' = p
           /\ Publishes(IF p = readTo THEN hub
                        ELSE [hub EXCEPT !.owed = Append(@, told), !.of = n],
                        l, <<Ev("accepted", m.id, ReadPosition(p))>>)
     /\ UNCHANGED <<history, over>>

(* receive: a command on a connection whose device has gone to another one *)
(* is refused on a stream nobody hears.                                    *)
ServerTakes(n) ==
  /\ link[n].up \in {"open", "closing"}
  /\ link[n].out # <<>>
  /\ MayRun(n)
  /\ LET m == Head(link[n].out)
         l == [link EXCEPT ![n].out = Tail(@)]
     IN \/ m.kind = "sync" /\ TakesSync(n, l, m)
        \/ m.kind = "send" /\ link[n].bound /\ TakesSend(n, l, m)
        \/ m.kind = "read" /\ link[n].bound /\ TakesRead(n, l, m)
        \/ /\ m.kind # "sync"
           /\ ~link[n].bound
           /\ link' = l
           /\ UNCHANGED <<history, over, readTo, hub>>
  /\ UNCHANGED client

(* The microtasks of send and markRead. *)
ServerEmits ==
  /\ hub.owed # <<>>
  /\ Publishes([hub EXCEPT !.owed = <<>>, !.of = 0], link, hub.owed)
  /\ UNCHANGED <<history, over, readTo, client>>

(* reply: a line of hers is recorded and told at once. *)
SheReplies ==
  /\ Able /\ hub.owed = <<>>
  /\ Cardinality({p \in Places : history[p] = Reply}) < MaxReplies
  /\ history' = Append(history, Reply)
  /\ Publishes(hub, link, <<Ev("message", Nobody, [place |-> Len(history) + 1, own |-> FALSE])>>)
  /\ UNCHANGED <<over, readTo, client>>

(* A turn ends, and the event of an owner message with it. *)
EventCompletes(p) ==
  /\ Able /\ hub.owed = <<>>
  /\ p \in PendingEvents
  /\ over' = over \cup {p}
  /\ Publishes(hub, link, <<Ev("completed", Nobody, p)>>)
  /\ UNCHANGED <<history, readTo, client>>

(* Another device of the owner's reads, perhaps later than this one did. *)
OtherDeviceReads(p) ==
  /\ Able /\ hub.owed = <<>>
  /\ p \in Places
  /\ readTo' = MarkedRead(p)
  /\ readTo' # readTo
  /\ Publishes(hub, link, <<Ev("read", Nobody, ReadPosition(readTo'))>>)
  /\ UNCHANGED <<history, over, client>>

(* ---------------------------------------------------------------------- *)
(* The device.                                                            *)

Active == client.phase \in {"syncing", "ready", "unavailable"}
Sends(c, ms) == [link EXCEPT ![c.conn].out = @ \o ms]

SendOf(r) == [kind |-> "send", id |-> <<"send", r>>, body |-> 0]
ReadOf(p) == [kind |-> "read", id |-> <<"read", p>>, body |-> p]
SyncOf(k, at) == [kind |-> "sync", id |-> <<"sync", k>>, body |-> at]

(* becomeReady, resendUnsent: what was written while away goes now.  The app *)
(* sends its unanswered reads again too; the browser does not.               *)
Unsent(c) ==
  SetToSeq({SendOf(r) : r \in {s \in Requests : c.sent[s] = "sending"}})
    \o (IF c.kind = "app" THEN SetToSeq({ReadOf(p) : p \in c.reads}) ELSE <<>>)

(* How far reading has got, counting the reads not answered yet. *)
ReadIndex(c) ==
  CHOOSE p \in c.reads \cup {c.through} : \A q \in c.reads \cup {c.through} : q <= p

(* StreamTracker.accept and the browser's place: what an event is to a *)
(* device that has followed its stream to c.at.                        *)
Placing(c, t) ==
  LET answer == t.ev.kind \in {"accepted", "unavailable"}
      toSync == t.ev.kind = "unavailable" /\ t.ev.to[1] = "sync"
  IN IF t.ev.kind = "snapshot" THEN "apply"
     ELSE IF c.at # Nowhere /\ c.at[1] = t.at[1]
       THEN IF t.at[2] <= c.at[2] THEN "skip"
            ELSE IF t.at[2] = c.at[2] + 1 THEN "apply" ELSE "resync"
     ELSE IF c.kind = "app"
       THEN IF toSync THEN "apply" ELSE IF answer THEN "moment" ELSE "resync"
     ELSE IF c.at # Nowhere THEN "resync"
     ELSE IF answer THEN "moment" ELSE "skip"

(* ConversationState.apply and the mediator's apply. *)
WithMessage(c, m) ==
  IF m.place \in Range(c.shown) THEN c
  ELSE [c EXCEPT !.shown = Append(@, m.place),
                 !.pending = IF m.own THEN @ \cup {m.place} ELSE @,
                 !.unread = IF m.own THEN @ ELSE @ + 1]

WithRead(c, read) == [c EXCEPT !.through = read.through, !.unread = read.unread]

WithAnswer(c, ev) ==
  CASE ev.to[1] = "send" /\ c.sent[ev.to[2]] \in {"sending", "failed"} ->
         [c EXCEPT !.sent[ev.to[2]] = "done",
                   !.pending = IF ev.body.pending THEN @ \cup {ev.body.place}
                               ELSE @ \ {ev.body.place}]
    [] ev.to[1] = "read" /\ ev.to[2] \in c.reads ->
         WithRead([c EXCEPT !.reads = @ \ {ev.to[2]}], ev.body)
    [] OTHER -> c

WithRefusal(c, ev) ==
  CASE ev.to[1] = "send" /\ c.sent[ev.to[2]] = "sending" ->
         [c EXCEPT !.sent[ev.to[2]] = "failed"]
    [] ev.to[1] = "read" -> [c EXCEPT !.reads = @ \ {ev.to[2]}]
    [] OTHER -> c

WithSnapshot(c, s) ==
  WithRead([c EXCEPT !.shown = [i \in 1..s.shown |-> i], !.pending = s.pending,
                     !.reads = IF c.kind = "browser" THEN {} ELSE @], s.read)

Applied(c, ev) ==
  CASE ev.kind = "snapshot" -> WithSnapshot(c, ev.body)
    [] ev.kind = "message" -> WithMessage(c, ev.body)
    [] ev.kind = "completed" -> [c EXCEPT !.pending = @ \ {ev.body}]
    [] ev.kind = "read" -> WithRead(c, ev.body)
    [] ev.kind = "accepted" -> WithAnswer(c, ev)
    [] ev.kind = "unavailable" -> WithRefusal(c, ev)

Followed(c, t) ==
  LET placing == Placing(c, t)
  IN IF placing = "apply" THEN Applied([c EXCEPT !.at = t.at], t.ev)
     ELSE IF placing = "moment" THEN Applied(c, t.ev) ELSE c

(* What an event makes of the session: a snapshot is the browser's sync      *)
(* whatever asked for it, the app's only as the answer to the one it asked.  *)
AnswersSync(c, ev) == c.asked # 0 /\ ev.to = <<"sync", c.asked>>
(* Mutant: only a snapshot makes a session ready. *)
MakesReadyBySnapshot(c, ev) ==
  ev.kind = "snapshot" /\ (c.kind = "browser" \/ AnswersSync(c, ev))

MakesReady(c, ev) ==
  \/ ev.kind = "snapshot" /\ (c.kind = "browser" \/ AnswersSync(c, ev))
  \/ ev.kind = "accepted" /\ AnswersSync(c, ev)
MakesUnavailable(c, ev) == ev.kind = "unavailable" /\ AnswersSync(c, ev)

(* A sync is left for each connection it has still to open. *)
MayAsk == client.syncs + (MaxLinks - client.conn) < MaxSyncs

AskedAgain(c) == [c EXCEPT !.phase = "syncing", !.asked = c.syncs + 1, !.syncs = @ + 1]

ClientReceives ==
  /\ Active
  /\ link[client.conn].in # <<>>
  /\ LET t == Head(link[client.conn].in)
         c == Followed(client, t)
         heard == [link EXCEPT ![client.conn].in = Tail(@)]
         becomes(d, ms) == client' = d /\ link' = [heard EXCEPT ![client.conn].out = @ \o ms]
     IN \/ /\ Placing(client, t) = "skip"
           /\ becomes(client, <<>>)
        \/ /\ Placing(client, t) = "resync"
           /\ IF client.kind = "app" /\ client.asked # 0
                THEN becomes(client, <<>>)
                ELSE /\ MayAsk
                     /\ becomes(AskedAgain(client), <<SyncOf(client.syncs + 1, Nowhere)>>)
        \/ /\ Placing(client, t) \in {"apply", "moment"}
           /\ \/ /\ MakesReady(client, t.ev)
                 /\ becomes([c EXCEPT !.phase = "ready", !.asked = 0], Unsent(c))
              \/ /\ MakesUnavailable(client, t.ev)
                 /\ becomes([c EXCEPT !.phase = "unavailable", !.asked = 0], <<>>)
              \/ /\ ~MakesReady(client, t.ev) /\ ~MakesUnavailable(client, t.ev)
                 /\ becomes(c, <<>>)
  /\ UNCHANGED <<history, over, readTo, hub>>

(* connected, socket-opened: a new connection asks to go on from where the *)
(* stream was.                                                             *)
ClientConnects ==
  /\ client.phase = "waiting"
  /\ client.conn < MaxLinks
  /\ LET c == [AskedAgain(client) EXCEPT !.conn = @ + 1]
     IN /\ client' = c
        /\ link' = [link EXCEPT ![c.conn] =
             [@ EXCEPT !.up = "open", !.out = <<SyncOf(c.asked, c.at)>>]]
  /\ UNCHANGED <<history, over, readTo, hub>>

(* reconnect-due with the socket still open: the browser told the service is *)
(* unavailable asks again on the same connection; the app waits for its end. *)
ClientAsksAgain ==
  /\ client.kind = "browser" /\ client.phase = "unavailable"
  /\ MayAsk
  /\ client' = AskedAgain(client)
  /\ link' = Sends(client, <<SyncOf(client.syncs + 1, Nowhere)>>)
  /\ UNCHANGED <<history, over, readTo, hub>>

(* send, and the browser's retry-send of one shown as failed. *)
Writes(r, from, tries) ==
  /\ client.sent[r] = from
  /\ client.tries + tries <= MaxTries
  /\ client' = [client EXCEPT !.sent[r] = "sending", !.tries = @ + tries]
  /\ link' = IF client.phase = "ready" THEN Sends(client, <<SendOf(r)>>) ELSE link
  /\ UNCHANGED <<history, over, readTo, hub>>

OwnerSends(r) == Writes(r, "unsent", 0)
OwnerRetries(r) == client.kind = "browser" /\ Writes(r, "failed", 1)

(* read(through:) and readIfSeen: the replies in sight are read, up to the *)
(* last reply in the app, the last line in the browser.  The browser reads *)
(* only while it is synced.                                                *)
OwnerReads ==
  LET replies == {p \in Range(client.shown) : history[p] = Reply}
      p == Last(client.shown)
      through == IF client.kind = "browser" THEN p
                 ELSE CHOOSE q \in replies : \A o \in replies : o <= q
  IN /\ \E q \in replies : q > ReadIndex(client)
     /\ client.kind = "browser" => client.phase = "ready"
     /\ client.tries < MaxTries
     /\ client' = [client EXCEPT !.reads = @ \cup {through}, !.tries = @ + 1]
     /\ link' = IF client.phase = "ready" THEN Sends(client, <<ReadOf(through)>>) ELSE link
     /\ UNCHANGED <<history, over, readTo, hub>>

(* ---------------------------------------------------------------------- *)
(* What goes wrong: a connection that is lost, as either side sees it, and *)
(* a server that stops and starts.                                         *)

(* Something may still be lost: the device has a connection left to open. *)
MayLose == client.conn < MaxLinks

(* closed, reconnectNow: the device gives the connection up; what it had   *)
(* sent may still arrive, or not.                                          *)
ClientDrops ==
  /\ Active /\ MayLose
  /\ client' = [client EXCEPT !.phase = "waiting", !.asked = 0]
  /\ \E kept \in Prefixes(link[client.conn].out) :
       link' = [link EXCEPT ![client.conn] =
                  [@ EXCEPT !.out = kept, !.in = <<>>, !.heard = FALSE]]
  /\ UNCHANGED <<history, over, readTo, hub>>

(* The server closes a connection too slow to take what it is sent. *)
ServerCloses(n) ==
  /\ link[n].up = "open" /\ link[n].heard /\ MayLose
  /\ link' = [link EXCEPT ![n].up = "closing", ![n].code = "closed"]
  /\ UNCHANGED <<history, over, readTo, hub, client>>

Gone(l, kept) ==
  [l EXCEPT !.up = "gone", !.bound = FALSE, !.out = <<>>, !.in = kept,
            !.code = IF @ = "replaced" /\ kept = l.in THEN @ ELSE "closed"]

(* The server hears the end of a connection: ws's close. *)
ServerLoses(n) ==
  /\ link[n].up \in {"open", "closing"} /\ hub.owed = <<>>
  /\ MayLose \/ ~link[n].heard
  /\ \E kept \in Prefixes(link[n].in) : link' = [link EXCEPT ![n] = Gone(@, kept)]
  /\ hub' = [hub EXCEPT !.sink = IF @ = n THEN 0 ELSE @]
  /\ UNCHANGED <<history, over, readTo, client>>

ClientHearsClose ==
  /\ Active
  /\ link[client.conn].up \in {"closing", "gone"} /\ link[client.conn].in = <<>>
  /\ client' = [client EXCEPT !.asked = 0,
       !.phase = IF link[client.conn].code = "replaced" THEN "replaced" ELSE "waiting"]
  /\ link' = [link EXCEPT ![client.conn].heard = FALSE]
  /\ UNCHANGED <<history, over, readTo, hub>>

(* A stop or a crash, and the next process: another epoch, no streams. *)
Restarts ==
  /\ hub.epoch < MaxEpochs /\ MayLose
  /\ \E loop \in {"able", "unable"} :
       hub' = [epoch |-> hub.epoch + 1, loop |-> loop, last |-> 0, log |-> <<>>, sink |-> 0,
               owed |-> <<>>, of |-> 0]
  /\ \E kept \in IF client.conn = 0 THEN {<<>>} ELSE Prefixes(link[client.conn].in) :
       link' = [n \in Links |->
         IF link[n].up = "unused" THEN link[n]
         ELSE Gone(link[n], IF n = client.conn THEN kept ELSE <<>>)]
  /\ UNCHANGED <<history, over, readTo, client>>

(* ---------------------------------------------------------------------- *)

DeviceInit ==
  /\ history = <<>> /\ over = {} /\ readTo = 0
  /\ hub = [epoch |-> 1, loop |-> "able", last |-> 0, log |-> <<>>, sink |-> 0, owed |-> <<>>, of |-> 0]
  /\ link = [n \in Links |-> [up |-> "unused", bound |-> FALSE, heard |-> TRUE,
                              code |-> "none", out |-> <<>>, in |-> <<>>]]
  /\ \E kind \in Kinds :
       client = [kind |-> kind, phase |-> "waiting", conn |-> 0, at |-> Nowhere,
                 asked |-> 0, syncs |-> 0, shown |-> <<>>, pending |-> {}, through |-> 0,
                 unread |-> 0, sent |-> [r \in Requests |-> "unsent"], reads |-> {},
                 tries |-> 0]

DeviceNext ==
  \/ \E n \in Links : ServerTakes(n) \/ ServerCloses(n) \/ ServerLoses(n)
  \/ ServerEmits \/ SheReplies \/ Restarts
  \/ \E p \in Places : EventCompletes(p) \/ OtherDeviceReads(p)
  \/ ClientConnects \/ ClientReceives \/ ClientAsksAgain \/ ClientDrops \/ ClientHearsClose
  \/ \E r \in Requests : OwnerSends(r) \/ OwnerRetries(r)
  \/ OwnerReads

DeviceSpec == DeviceInit /\ [][DeviceNext]_deviceVars

(* Each side goes on with what has arrived, and the device opens the next *)
(* connection; nothing says that a connection is lost, or when.           *)
ServerServes == client.conn # 0 /\ ServerTakes(client.conn)
DeviceFairness ==
  /\ WF_deviceVars(part = "devices" /\ ServerServes) /\ WF_deviceVars(part = "devices" /\ ServerEmits)
  /\ WF_deviceVars(part = "devices" /\ ClientReceives) /\ WF_deviceVars(part = "devices" /\ ClientConnects)
  /\ WF_deviceVars(part = "devices" /\ ClientHearsClose)

(* ---------------------------------------------------------------------- *)
(* Properties.                                                            *)

DeviceTypeOK ==
  /\ Range(history) \subseteq Requests \cup {Reply}
  /\ over \subseteq Places /\ readTo \in 0..Len(history)
  /\ hub.epoch \in 1..MaxEpochs /\ hub.loop \in {"able", "unable"}
  /\ hub.sink \in 0..MaxLinks /\ hub.of \in 0..MaxLinks
  /\ \A n \in Links : /\ link[n].up \in {"unused", "open", "closing", "gone"}
                      /\ link[n].code \in {"none", "replaced", "closed"}
  /\ client.kind \in Kinds /\ client.conn \in 0..MaxLinks
  /\ client.phase \in {"waiting", "syncing", "ready", "unavailable", "replaced"}
  /\ Range(client.shown) \subseteq Places /\ client.pending \subseteq Places
  /\ client.reads \subseteq Places /\ client.unread \in 0..MaxReplies

(* A message sent again after a lost answer, on whatever connection and in  *)
(* whatever process, is in the conversation once.                           *)
RecordedOnce ==
  \A p, q \in Places : history[p] = history[q] /\ history[p] # Reply => p = q

(* What the device shows is the conversation from its first message, each   *)
(* once and in order: no resume, replay or snapshot skips or repeats one.   *)
ShownInOrder == \A i \in DOMAIN client.shown : client.shown[i] = i

(* A device that is synced on a connection of this process has, with what   *)
(* is still on its way to it, exactly the server's conversation: every      *)
(* message, the messages waiting for her, where reading got to, and the     *)
(* count of unread replies.                                                 *)
WillShow ==
  FoldLeft(Applied, FoldLeft(Followed, client, link[client.conn].in), hub.owed)
SyncedAgrees ==
  client.phase = "ready" /\ link[client.conn].up = "open" /\ link[client.conn].bound
    => /\ WillShow.shown = [i \in 1..Len(history) |-> i]
       /\ WillShow.pending = PendingEvents
       /\ WillShow.through = readTo /\ WillShow.unread = UnreadAfter(readTo)

(* Nothing is dropped between the device and its stream: while the loop     *)
(* takes commands, what is on its way to the device is a snapshot or what   *)
(* comes next after what it has, so it never has to start over within a     *)
(* connection.                                                              *)
NoGapArises ==
  Able /\ client.phase \in {"syncing", "ready"} /\ link[client.conn].up = "open" =>
    LET in == link[client.conn].in
        before(i) == IF i = 1 THEN client.at ELSE in[i - 1].at
    IN \A i \in DOMAIN in :
         \/ in[i].ev.kind = "snapshot"
         \/ in[i].at = <<before(i)[1], before(i)[2] + 1>>

(* A message shown as being sent by a synced device is on its way to the    *)
(* server, or the answer is on its way back.                                *)
UnderWay(id) ==
  \/ \E i \in DOMAIN link[client.conn].out : link[client.conn].out[i].id = id
  \/ \E i \in DOMAIN link[client.conn].in : link[client.conn].in[i].ev.to = id
Serving == client.phase = "ready" /\ link[client.conn].up = "open" /\ link[client.conn].bound
SendsAreOnTheWay ==
  Serving => \A r \in Requests : client.sent[r] = "sending" => UnderWay(<<"send", r>>)

(* A read shown as made and not answered is on its way too: the server      *)
(* hears of it, for the other devices.                                      *)
ReadsAreOnTheWay == Serving => \A p \in client.reads : UnderWay(<<"read", p>>)

(* The app's reads: it sends them again with every sync. *)
AppReadsAreOnTheWay == client.kind = "app" => ReadsAreOnTheWay

(* Reading never goes back: a read that arrives late, from another device   *)
(* or an earlier connection, does not make read replies unread.             *)
ReadNeverBack == [][readTo' >= readTo]_deviceVars

(* What the owner writes is sent in the end, or shown as not sent, unless   *)
(* the loop cannot take it or another connection has the device.            *)
SendsEnd ==
  \A r \in Requests :
    client.sent[r] = "sending"
      ~> (client.sent[r] # "sending" \/ client.phase = "replaced" \/ ~Able)

(* A message is recorded once, a device shows the conversation in order,    *)
(* nothing is dropped between a device and its stream, and what it sends is *)
(* on its way, however its connections and the process end.                 *)
DeviceSafety ==
  /\ RecordedOnce /\ ShownInOrder /\ NoGapArises
  /\ SendsAreOnTheWay /\ AppReadsAreOnTheWay
=============================================================================
