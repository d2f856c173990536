----------------------------- MODULE SlackRecord -----------------------------
(* What is said in one Slack channel, and natsumi's record of it: the chain  *)
(* SlackWorkspace handles events and fill-ins on, one after another, and the *)
(* rows and day files of SlackArchive.  Slack itself, its socket and its Web *)
(* API are what the code uses of them: events in their order, some sent      *)
(* twice and some never while the socket is away, and calls that may fail.   *)
(*                                                                           *)
(* A message is known by its place in what was said, its ts; its text by the *)
(* number of its edits.  Names, markup, attached files and the index are     *)
(* left out, and so is the number of reactions Slack only counts.            *)
EXTENDS Parts, Naturals, FiniteSets, Sequences, SequencesExt, FiniteSetsExt

CONSTANTS Speakers,     \* the people of the channel who react
          Talks,        \* what may be said: [direct, says, trouble], a message of `says` being
                        \*   [by, thread, mention]: its speaker, its thread's ts (0: none),
                        \*   and whether it mentions natsumi;
                        \*   and `trouble` bounds the edits, deletions and reactions, the
                        \*   connections of the socket, and what goes wrong, together
          DaySaid       \* the local day of each ts

TimeStamps == DOMAIN DaySaid
Messages == [by : {"person", "natsumi"}, thread : {0} \cup TimeStamps, mention : BOOLEAN]

(* A reply is said after its parent, which is no reply; no reaction of a   *)
(* speaker is the mark of an event that says none.                         *)
ASSUME SlackAssumption ==
  /\ DaySaid \in Seq(Nat) /\ "not said" \notin Speakers
  /\ \A t \in Talks :
       /\ t.direct \in BOOLEAN /\ t.says \in Seq(Messages) /\ Len(t.says) <= Len(DaySaid)
       /\ \A i \in DOMAIN t.says : t.says[i].thread # 0 =>
            t.says[i].thread < i /\ t.says[t.says[i].thread].thread = 0

NoRow == [line |-> "none"]
NotSaid == {"not said"}      \* the reactions of a live event: Slack said none

VARIABLES
  talk,      \* what is to be said, and `direct`, is_im
  said,      \* what Slack holds of it: how often edited, deleted or not, who reacted
  socket,    \* "down" before start and after a stop, "away", "open"
  posting,   \* natsumi's posts whose record the dove has still to ask for
  events,    \* SlackWorkspace.chain: what is still to be handled
  handling,  \* what is being handled: the messages left of it and how far the first has got
  rows,      \* slack_messages and slack_reactions, by ts
  days,      \* the files of the days, as she reads them
  marked,    \* slack_attention
  toldOf,    \* history: the attentions, each with the place it named
  unsure,    \* history: messages whose latest change never came, or not in order
  hushed,    \* history: messages recorded where nothing is told, or cut off before
  spoiled,   \* history: days whose file was cut off from its rows
  missed,    \* history: messages passed over by a row recorded out of a fill-in
  behind,    \* history: no fill-in has ended since the socket was away
  tally      \* how much trouble there was

channel == <<talk, said>>
theRecord == <<rows, days, marked, toldOf>>
notes == <<unsure, hushed, spoiled, missed, behind>>
slackVars == <<channel, socket, posting, events, handling, theRecord, notes, tally>>

Saying(ts) == talk.says[ts]
AtRest == [at |-> "idle", items |-> <<>>, live |-> TRUE, raises |-> TRUE, new |-> FALSE]
Troubles == tally < talk.trouble /\ tally' = tally + 1

(* ---------------------------------------------------------------------- *)
(* The record.                                                            *)

HasRow(ts) == rows[ts] # NoRow
RowsOf(r, day) == {ts \in TimeStamps : r[ts] # NoRow /\ r[ts].day = day}

(* A set in the order of its elements' ranks, by how many come before each. *)
InOrder(S, rank) ==
  [i \in 1..Cardinality(S) |-> CHOOSE x \in S : Cardinality({y \in S : rank[y] < rank[x]}) = i - 1]
AsSaid(S) == InOrder(S, [ts \in S |-> ts])

(* Mutant: a day's lines in the order they were said. *)
LinesAsSaid(r, day) == AsSaid(RowsOf(r, day))

(* The rows of a day in the order of their lines. *)
LinesOf(r, day) == InOrder(RowsOf(r, day), [ts \in RowsOf(r, day) |-> r[ts].line])

(* lineOf, resolve: a line is its place among its day's, and back. *)
LineNow(ts) == Cardinality({t \in RowsOf(rows, rows[ts].day) : rows[t].line < rows[ts].line})
Resolved(day, line) ==
  LET lines == LinesOf(rows, day) IN IF line < Len(lines) THEN lines[line + 1] ELSE 0

(* entry: a reply names the line of its parent in the same file. *)
Entry(r, lines, ts) ==
  LET row == r[ts]
      under == IF row.thread = 0 THEN "channel"
               ELSE IF row.thread \in Range(lines) THEN IndexFirstSubSeq(<<row.thread>>, lines) ELSE "thread"
  IN IF row.deleted THEN [ts |-> ts, under |-> under]
     ELSE [ts |-> ts, under |-> under, text |-> row.text, reacted |-> row.reacted]

(* writeDay: one day of the channel, from the rows. *)
DayFile(r, day) ==
  LET lines == LinesOf(r, day) IN [i \in DOMAIN lines |-> Entry(r, lines, lines[i])]

(* The newest top-level message recorded; 0 in a channel never recorded. *)
Cursor(r) == Max({0} \cup {ts \in TimeStamps : r[ts] # NoRow /\ r[ts].thread = 0})

SpokeIn(thread) ==
  \E ts \in TimeStamps : /\ HasRow(ts) /\ rows[ts].own /\ ~rows[ts].deleted
                         /\ ts = thread \/ rows[ts].thread = thread

(* A new message takes the next line of its day's file, a reply of its     *)
(* parent's; one recorded keeps its place, and is there again.             *)
NewRow(item) ==
  LET inThread == item.thread # 0 /\ HasRow(item.thread)
      day == IF inThread THEN rows[item.thread].day ELSE DaySaid[item.ts]
  IN [line |-> Max({0} \cup {rows[ts].line + 1 : ts \in RowsOf(rows, day)}), day |-> day,
      thread |-> item.thread, own |-> Saying(item.ts).by = "natsumi",
      text |-> item.text, deleted |-> FALSE,
      reacted |-> IF item.reacted = NotSaid THEN {} ELSE item.reacted]

RowWith(item) ==
  IF ~HasRow(item.ts) THEN NewRow(item)
  ELSE [rows[item.ts] EXCEPT !.text = item.text, !.deleted = FALSE,
          !.reacted = IF item.reacted = NotSaid THEN @ ELSE item.reacted]

(* ---------------------------------------------------------------------- *)
(* What Slack does.                                                       *)

Event(type, ts, x) == [type |-> type, ts |-> ts, x |-> x]
About(ts) == {i \in DOMAIN events : events[i].ts = ts} # {}

(* An event comes while the socket is open; otherwise nobody hears it, and *)
(* what it says of a message recorded or to be recorded is not known.      *)
SlackSends(type, ts, x) ==
  IF socket = "open"
    THEN events' = Append(events, Event(type, ts, x)) /\ UNCHANGED unsure
    ELSE unsure' = unsure \cup {ts} /\ UNCHANGED events

Says(by) ==
  LET ts == Len(said) + 1
  IN /\ Len(said) < Len(talk.says) /\ Saying(ts).by = by
     /\ said' = Append(said, [text |-> 0, deleted |-> FALSE, reacted |-> {}])
     /\ SlackSends("message", ts, 0)

SlackSays ==
  /\ Says("person")
  /\ UNCHANGED <<talk, socket, posting, handling, theRecord, hushed, spoiled, missed, behind, tally>>

(* The dove posts natsumi's words: Slack has the message before the dove, *)
(* with Slack's answer, asks for its record.                              *)
NatsumiPosts ==
  /\ posting = 0 /\ socket # "down"
  /\ Says("natsumi")
  /\ posting' = Len(said) + 1
  /\ UNCHANGED <<talk, socket, handling, theRecord, hushed, spoiled, missed, behind, tally>>

RecordOwn ==
  /\ posting # 0
  /\ posting' = 0
  /\ events' = Append(events, Event("message", posting, 0))
  /\ unsure' = IF said[posting].deleted THEN unsure \cup {posting} ELSE unsure
  /\ UNCHANGED <<channel, socket, handling, theRecord, hushed, spoiled, missed, behind, tally>>

Altered(ts, message, type, x) ==
  /\ ~said[ts].deleted
  /\ said' = [said EXCEPT ![ts] = message]
  /\ SlackSends(type, ts, x)
  /\ Troubles
  /\ UNCHANGED <<talk, socket, posting, handling, theRecord, hushed, spoiled, missed, behind>>

SlackEdits(ts) ==
  /\ Saying(ts).by = "person"
  /\ Altered(ts, [said[ts] EXCEPT !.text = @ + 1], "changed", said[ts].text + 1)
SlackDeletes(ts) == Altered(ts, [said[ts] EXCEPT !.deleted = TRUE], "deleted", 0)
SlackReacts(ts, who) ==
  IF who \in said[ts].reacted
    THEN Altered(ts, [said[ts] EXCEPT !.reacted = @ \ {who}], "unreacted", who)
    ELSE Altered(ts, [said[ts] EXCEPT !.reacted = @ \cup {who}], "reacted", who)

(* Slack sends an event again: a retry, or the app_mention of a message. *)
SlackRepeats(i) ==
  /\ socket = "open" /\ events[i].type # "fill"
  /\ events' = Append(events, events[i])
  /\ unsure' = IF \E j \in DOMAIN events : j > i /\ events[j].ts = events[i].ts
               THEN unsure \cup {events[i].ts} ELSE unsure
  /\ Troubles
  /\ UNCHANGED <<channel, socket, posting, handling, theRecord, hushed, spoiled, missed, behind>>

(* ---------------------------------------------------------------------- *)
(* The socket, and the process around it.                                 *)

SlackStarts ==
  /\ socket = "down"
  /\ socket' = "away"
  /\ UNCHANGED <<talk, said, posting, events, handling, theRecord, notes, tally>>

(* connected: every connection fills in, in turn with the events. *)
SlackConnects ==
  /\ socket = "away"
  /\ socket' = "open"
  /\ events' = Append(events, Event("fill", 0, 0))
  /\ Troubles
  /\ UNCHANGED <<talk, said, posting, handling, theRecord, notes>>

SocketCloses ==
  /\ socket = "open"
  /\ socket' = "away" /\ behind' = TRUE
  /\ UNCHANGED <<talk, said, posting, events, handling, theRecord, unsure, hushed, spoiled, missed, tally>>

(* A crash: what was to be handled is lost, and what was being handled is  *)
(* cut off where it had got to.                                            *)
SlackDies ==
  LET lost == {events[i].ts : i \in DOMAIN events} \cup {handling.items[i].ts : i \in DOMAIN handling.items}
  IN /\ socket # "down"
     /\ socket' = "down" /\ behind' = TRUE
     /\ events' = <<>> /\ handling' = AtRest /\ posting' = 0
     /\ unsure' = unsure \cup (lost \ {0}) \cup ({posting} \ {0})
     /\ hushed' = IF handling.at = "write" THEN hushed \cup {handling.items[1].ts} ELSE hushed
     /\ spoiled' = IF handling.at = "write" THEN spoiled \cup {rows[handling.items[1].ts].day} ELSE spoiled
     /\ Troubles
     /\ UNCHANGED <<talk, said, theRecord, missed>>

(* ---------------------------------------------------------------------- *)
(* SlackWorkspace.handle: one event or fill-in at a time.                  *)

(* A message as an event, or the Web API, says it. *)
Item(ts, text, thread, reacted) ==
  [ts |-> ts, text |-> text, thread |-> thread, reacted |-> reacted,
   quiet |-> FALSE, alone |-> FALSE, replies |-> FALSE]
Quietly(item) == [item EXCEPT !.quiet = TRUE]
FromApi(ts) == Item(ts, said[ts].text, Saying(ts).thread, said[ts].reacted)

Handles(live, raises, items) ==
  handling' = [at |-> "next", items |-> items, live |-> live, raises |-> raises, new |-> FALSE]

TakesEvent(type) ==
  /\ handling = AtRest /\ events # <<>> /\ Head(events).type = type
  /\ events' = Tail(events)

TakesMessage ==
  /\ TakesEvent("message")
  /\ LET e == Head(events) IN Handles(TRUE, TRUE, <<Item(e.ts, e.x, Saying(e.ts).thread, NotSaid)>>)
  /\ UNCHANGED <<channel, socket, posting, theRecord, notes, tally>>

(* An edit is recorded outside of any thread, and told nothing more.   *)
TakesChanged ==
  /\ TakesEvent("changed")
  /\ LET e == Head(events) IN Handles(TRUE, TRUE, <<Quietly(Item(e.ts, e.x, 0, NotSaid))>>)
  /\ UNCHANGED <<channel, socket, posting, theRecord, notes, tally>>

(* remove, react, unreact: what changes a row recorded writes its day again. *)
Changes(ts, changed, row) ==
  /\ IF HasRow(ts) /\ changed
       THEN /\ rows' = [rows EXCEPT ![ts] = row]
            /\ handling' = [AtRest EXCEPT !.at = "write", !.items = <<Quietly(Item(ts, 0, 0, NotSaid))>>]
       ELSE UNCHANGED <<rows, handling>>
  /\ UNCHANGED <<channel, socket, posting, days, marked, toldOf, notes, tally>>

TakesDeleted ==
  /\ TakesEvent("deleted")
  /\ LET ts == Head(events).ts IN Changes(ts, ~rows[ts].deleted, [rows[ts] EXCEPT !.deleted = TRUE])
TakesReacted ==
  /\ TakesEvent("reacted")
  /\ LET e == Head(events)
     IN Changes(e.ts, e.x \notin rows[e.ts].reacted, [rows[e.ts] EXCEPT !.reacted = @ \cup {e.x}])
TakesUnreacted ==
  /\ TakesEvent("unreacted")
  /\ LET e == Head(events)
     IN Changes(e.ts, e.x \in rows[e.ts].reacted, [rows[e.ts] EXCEPT !.reacted = @ \ {e.x}])

(* fillIn: what the channel holds after the cursor, oldest first.  A first *)
(* one raises nothing.                                                     *)
TakesFill ==
  /\ TakesEvent("fill")
  /\ LET after == {ts \in DOMAIN said : Saying(ts).thread = 0 /\ ~said[ts].deleted /\ ts > Cursor(rows)}
         item(ts) == [FromApi(ts) EXCEPT
           !.replies = \E r \in DOMAIN said : Saying(r).thread = ts /\ ~said[r].deleted]
     IN Handles(FALSE, Cursor(rows) # 0,
                [i \in 1..Cardinality(after) |-> item(AsSaid(after)[i])])
  /\ behind' = (behind /\ socket # "open")
  /\ UNCHANGED <<channel, socket, posting, theRecord, unsure, hushed, spoiled, missed, tally>>

(* users.conversations or conversations.history fails: the fill-in is over. *)
FillFails ==
  /\ TakesEvent("fill")
  /\ Troubles
  /\ UNCHANGED <<channel, socket, posting, handling, theRecord, notes>>

(* conversations.info fails for a channel not seen before: the event is over. *)
EventFails ==
  /\ \A ts \in TimeStamps : ~HasRow(ts)
  /\ TakesEvent("message") \/ TakesEvent("changed")
  /\ LET ts == Head(events).ts IN missed' = missed \cup {ts} /\ unsure' = unsure \cup {ts}
  /\ Troubles
  /\ UNCHANGED <<channel, socket, posting, handling, theRecord, hushed, spoiled, behind>>

(* ---------------------------------------------------------------------- *)
(* receive: one message recorded, and told of when it is for her.            *)

First == handling.items[1]
Rest == Tail(handling.items)
At(stage, items) == handling' = [handling EXCEPT !.at = stage, !.items = items]

WantsParent ==
  handling.at = "next" /\ handling.items # <<>>
    /\ First.thread # 0 /\ ~First.alone /\ ~HasRow(First.thread)

(* fetchParent: the parent is recorded before its reply, and told nothing of.   *)
FetchesParent ==
  /\ WantsParent
  /\ LET reply == [First EXCEPT !.alone = TRUE]
     IN At("next", (IF said[First.thread].deleted THEN <<>> ELSE <<Quietly(FromApi(First.thread))>>)
                     \o <<reply>> \o Rest)
  /\ UNCHANGED <<channel, socket, posting, events, theRecord, notes, tally>>

ParentFails ==
  /\ WantsParent
  /\ At("next", <<[First EXCEPT !.alone = TRUE]>> \o Rest)
  /\ Troubles
  /\ UNCHANGED <<channel, socket, posting, events, theRecord, notes>>

(* What a row written out of a fill-in makes the next cursor pass over. *)
PassedOver(ts) ==
  IF handling.live /\ behind /\ rows'[ts].thread = 0
    THEN {t \in DOMAIN said : t < ts /\ Saying(t).thread = 0 /\ ~HasRow(t)} ELSE {}
ReadAfresh(item) ==
  item.reacted # NotSaid /\ ~About(item.ts) /\ ~said[item.ts].deleted
    /\ item.text = said[item.ts].text /\ item.reacted = said[item.ts].reacted

RecordsRow ==
  /\ handling.at = "next" /\ handling.items # <<>> /\ ~WantsParent
  /\ LET ts == First.ts
         new == ~HasRow(ts)
     IN /\ rows' = [rows EXCEPT ![ts] = RowWith(First)]
        /\ handling' = [handling EXCEPT !.at = "write", !.new = new]
        /\ hushed' = IF new /\ (First.quiet \/ ~handling.raises) THEN hushed \cup {ts} ELSE hushed
        /\ unsure' = IF ReadAfresh(First) THEN unsure \ {ts} ELSE unsure
        /\ missed' = missed \cup PassedOver(ts)
  /\ UNCHANGED <<channel, socket, posting, events, days, marked, toldOf, spoiled, behind, tally>>

ForHer(ts) == Saying(ts).by = "person" /\ (talk.direct \/ Saying(ts).mention)
InHerThread(item) == item.thread # 0 /\ Saying(item.ts).by = "person" /\ SpokeIn(item.thread)

Raises(item) ==
  /\ ~item.quiet /\ handling.raises /\ (handling.new \/ handling.live)
  /\ ForHer(item.ts) \/ InHerThread(item)
  /\ item.ts \notin marked

(* After a message, the replies of its thread and then the next one. *)
GoesOn == IF First.replies THEN At("thread", handling.items) ELSE At("next", Rest)

(* The day's file is written, and then markForHer and the attention name *)
(* the line as it stands.                                                *)
RecordsFile ==
  /\ handling.at = "write"
  /\ LET ts == First.ts
         day == rows[ts].day
     IN /\ days' = [days EXCEPT ![day] = DayFile(rows, day)]
        /\ spoiled' = spoiled \ {day}
        /\ IF Raises(First)
             THEN /\ marked' = marked \cup {ts}
                  /\ toldOf' = Append(toldOf, [ts |-> ts, day |-> day, line |-> LineNow(ts)])
             ELSE UNCHANGED <<marked, toldOf>>
  /\ GoesOn
  /\ UNCHANGED <<channel, socket, posting, events, rows, unsure, hushed, missed, behind, tally>>

(* The message is given up where its file could not be written; a fill-in, *)
(* and a reply whose parent it was, go on.                                 *)
FileFails ==
  /\ handling.at = "write"
  /\ GoesOn
  /\ hushed' = hushed \cup {First.ts}
  /\ spoiled' = spoiled \cup {rows[First.ts].day}
  /\ Troubles
  /\ UNCHANGED <<channel, socket, posting, events, theRecord, unsure, missed, behind>>

(* The replies of a thread filled in, unless they cannot be fetched. *)
FetchesThread ==
  /\ handling.at = "thread"
  /\ LET replies == {r \in DOMAIN said : Saying(r).thread = First.ts /\ ~said[r].deleted}
     IN \/ /\ At("next", [i \in 1..Cardinality(replies) |-> FromApi(AsSaid(replies)[i])] \o Rest)
           /\ UNCHANGED tally
        \/ At("next", Rest) /\ Troubles
  /\ UNCHANGED <<channel, socket, posting, events, theRecord, notes>>

Handled ==
  /\ handling.at = "next" /\ handling.items = <<>>
  /\ handling' = AtRest
  /\ UNCHANGED <<channel, socket, posting, events, theRecord, notes, tally>>

(* ---------------------------------------------------------------------- *)

SlackInit ==
  /\ talk \in Talks /\ said = <<>> /\ socket = "away" /\ posting = 0
  /\ events = <<>> /\ handling = AtRest
  /\ rows = [ts \in TimeStamps |-> NoRow] /\ days = [day \in Range(DaySaid) |-> <<>>]
  /\ marked = {} /\ toldOf = <<>>
  /\ unsure = {} /\ hushed = {} /\ spoiled = {} /\ missed = {} /\ behind = TRUE
  /\ tally = 0

SlackNext ==
  \/ SlackSays \/ NatsumiPosts \/ RecordOwn
  \/ \E ts \in DOMAIN said : SlackEdits(ts) \/ SlackDeletes(ts) \/ \E who \in Speakers : SlackReacts(ts, who)
  \/ \E i \in DOMAIN events : SlackRepeats(i)
  \/ SlackStarts \/ SlackConnects \/ SocketCloses \/ SlackDies
  \/ TakesMessage \/ TakesChanged \/ TakesDeleted \/ TakesReacted \/ TakesUnreacted
  \/ TakesFill \/ FillFails \/ EventFails
  \/ FetchesParent \/ ParentFails \/ RecordsRow \/ RecordsFile \/ FileFails
  \/ FetchesThread \/ Handled

SlackSpec == SlackInit /\ [][SlackNext]_slackVars

(* ---------------------------------------------------------------------- *)
(* Properties.                                                            *)

SlackTypeOK ==
  /\ socket \in {"down", "away", "open"} /\ posting \in {0} \cup DOMAIN said
  /\ handling.at \in {"idle", "next", "write", "thread"}
  /\ \A ts \in TimeStamps : HasRow(ts) => rows[ts].day \in DOMAIN days /\ rows[ts].line \in Nat
  /\ marked \subseteq TimeStamps /\ behind \in BOOLEAN

(* A message is told of once, however often and by whichever way Slack says   *)
(* it, and the file and line told are its own ever after, for natsumi who     *)
(* reads the file and for the dove who looks up what she names.             *)
ToldTruly ==
  \A i \in DOMAIN toldOf :
    LET t == toldOf[i]
    IN /\ \A j \in DOMAIN toldOf : toldOf[j].ts = t.ts => i = j
       /\ Resolved(t.day, t.line) = t.ts
       /\ t.day \notin spoiled => days[t.day][t.line + 1].ts = t.ts

(* Between two things handled a day's file says what the rows say, unless a *)
(* crash or a failed write came between the two.                            *)
FilesFollow ==
  handling = AtRest => \A day \in DOMAIN days \ spoiled : days[day] = DayFile(rows, day)

(* With everything handled, a recorded message reads as it does in Slack:   *)
(* a fill-in and the events around it come to the same end in any order.    *)
Caught == socket = "open" /\ handling = AtRest /\ events = <<>>
RecordFollows ==
  Caught => \A ts \in DOMAIN said \ unsure : HasRow(ts) =>
    rows[ts].text = said[ts].text /\ rows[ts].deleted = said[ts].deleted
      /\ (said[ts].deleted \/ rows[ts].reacted = said[ts].reacted)

(* No fill-in leaves a gap behind the cursor, wherever it is cut off, and   *)
(* whatever is still to be handled: what is passed over was passed over by  *)
(* a live row before the fill-in.                                           *)
NoneMissed ==
  \A ts \in DOMAIN said :
    Saying(ts).thread = 0 /\ ~said[ts].deleted /\ ts < Cursor(rows) /\ ~HasRow(ts) => ts \in missed

(* A recorded message for her is told of, unless it was recorded where        *)
(* nothing is told, or cut off before.                                        *)
MentionsAreTold ==
  \A ts \in DOMAIN said :
    HasRow(ts) /\ ForHer(ts) /\ ts \notin hushed
      => ts \in marked \/ \E i \in DOMAIN handling.items : handling.items[i].ts = ts

(* The record of a channel is whole, in place and told of once, through      *)
(* lost connections, repeated events and crashes.                          *)
SlackSafety == ToldTruly /\ FilesFollow /\ RecordFollows /\ NoneMissed /\ MentionsAreTold
=============================================================================
