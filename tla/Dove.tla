-------------------------------- MODULE Dove --------------------------------
(****************************************************************************)
(* What natsumi asks the dove to post to Slack (src/src/server/dove.ts):    *)
(* each draft is judged, then sent, turned back, or handed to the owner as  *)
(* an approval that she decides on any device or that expires.  Results are *)
(* rows, written to the request's file and told by an attention afterwards. *)
(*                                                                          *)
(* Requests are carried out one at a time on a chain, and results told on   *)
(* another.  A judge, a post to Slack and a write of the results are waited *)
(* for, and the owner decides, approvals expire, and the server stops or is *)
(* killed meanwhile.  What runs without waiting is one action.              *)
(****************************************************************************)
EXTENDS Parts, Naturals, Sequences, FiniteSets

CONSTANTS
  Posts,        \* the requests, numbers in the order they are taken; all answer one message of Slack
  MaxReturns,   \* MAX_RETURNS
  MaxStops      \* bound: the stops and kills of the server

ASSUME DoveAssumption == IsFiniteSet(Posts) /\ Posts = 1..Cardinality(Posts) /\ MaxReturns \in Nat /\ MaxStops \in Nat

VARIABLES
  post,         \* Posts -> dove_posts.state, or "none"
  plain,        \* the reactions: nobody judges them
  verdict,      \* Posts -> dove_posts.verdict, or "none"
  approval,     \* Posts -> approvals.state, or "none"
  overdue,      \* the approvals whose time is past
  results,      \* Posts -> dove_results, in order
  tells,        \* Posts -> how many of its results are told (told = 1), from the first
  lines,        \* Posts -> how many results results.jsonl holds
  works,        \* the chain: what is to be carried out, the first of it under way
  stage,        \* where the first of it is: waiting for its turn, for the judge or for Slack
  telling,      \* the round of telling: under way, the posts left, the results read
  rounds,       \* the rounds that are to follow, counted up to one
  ended,        \* close() was called
  copies,       \* Posts -> the copies Slack has (external)
  skipped,      \* history: the results let go because the server was stopping
  broken,       \* history: a write of the results failed since the start
  stops

dovePosts == <<post, plain, verdict, approval, results>>
doveVars == <<dovePosts, overdue, tells, lines, works, stage, telling, rounds, ended, copies, skipped, broken, stops>>

DoveNotTelling == [at |-> "no", todo |-> {}, of |-> 0, read |-> 0]
DoveOver == {"sent", "failed", "returned", "rejected", "expired"}

-----------------------------------------------------------------------------
(* Results.                                                                 *)

\* tell(): a row, and a round after the one under way; nothing once the server is stopping.
DoveTells(p, result) ==
  IF ended
    THEN skipped' = skipped \cup {p} /\ UNCHANGED <<results, rounds>>
    ELSE results' = [results EXCEPT ![p] = Append(@, result)] /\ rounds' = 1 /\ UNCHANGED skipped

\* A round takes the posts with a result not told.
DoveRoundBegins ==
  /\ telling = DoveNotTelling /\ rounds = 1
  /\ rounds' = 0
  /\ telling' = IF ended THEN DoveNotTelling
                ELSE [DoveNotTelling EXCEPT !.at = "next", !.todo = {p \in Posts : tells[p] < Len(results[p])}]
  /\ UNCHANGED <<dovePosts, overdue, tells, lines, works, stage, ended, copies, skipped, broken, stops>>

\* Its results are read, then its file is written whole.
DoveRoundReads(p) ==
  /\ telling.at = "next" /\ p \in telling.todo /\ ~ended
  /\ telling' = [at |-> "writing", todo |-> telling.todo \ {p}, of |-> p, read |-> Len(results[p])]
  /\ UNCHANGED <<dovePosts, overdue, tells, lines, works, stage, rounds, ended, copies, skipped, broken, stops>>

DoveRoundWrites ==
  /\ telling.at = "writing"
  /\ lines' = [lines EXCEPT ![telling.of] = telling.read]
  /\ telling' = [telling EXCEPT !.at = "written"]
  /\ UNCHANGED <<dovePosts, overdue, tells, works, stage, rounds, ended, copies, skipped, broken, stops>>

\* Those read are marked as told, in one transaction with their attentions.
DoveRoundMarks ==
  /\ telling.at = "written"
  /\ tells' = [tells EXCEPT ![telling.of] = telling.read]
  /\ telling' = [telling EXCEPT !.at = "next", !.of = 0, !.read = 0]
  /\ UNCHANGED <<dovePosts, overdue, lines, works, stage, rounds, ended, copies, skipped, broken, stops>>

\* A write fails, and the round with it: told on the next start, or with a later result.
DoveRoundFails ==
  /\ telling.at = "writing" /\ stops < MaxStops
  /\ telling' = DoveNotTelling /\ broken' = TRUE /\ stops' = stops + 1
  /\ UNCHANGED <<dovePosts, overdue, tells, lines, works, stage, rounds, ended, copies, skipped>>

DoveRoundEnds ==
  /\ telling.at = "next" /\ (telling.todo = {} \/ ended)
  /\ telling' = DoveNotTelling
  /\ UNCHANGED <<dovePosts, overdue, tells, lines, works, stage, rounds, ended, copies, skipped, broken, stops>>

-----------------------------------------------------------------------------
(* Requests.                                                                *)

\* ask(): the request is recorded and carried out after those before it.
DoveAsk(p, reaction) ==
  /\ post[p] = "none" /\ (\A q \in 1..(p - 1) : post[q] # "none") /\ ~ended
  /\ post' = [post EXCEPT ![p] = "judging"] /\ works' = Append(works, [do |-> "carry", of |-> p])
  /\ plain' = IF reaction THEN plain \cup {p} ELSE plain
  /\ UNCHANGED <<verdict, approval, results, overdue, tells, lines, stage, telling, rounds, ended, copies, skipped, broken, stops>>

DoveNow(what) == works # <<>> /\ stage = what
\* Mutant: the next begins where the one before ended.
DoveDoneHolding == works' = Tail(works) /\ stage' = stage

DoveDone == works' = Tail(works) /\ stage' = "turn"
DoveAt == Head(works).of

\* The work was done by another, or the server is stopping: it is passed over.
DovePasses ==
  /\ DoveNow("turn")
  /\ ended \/ post[DoveAt] # (IF Head(works).do = "carry" THEN "judging" ELSE "sending")
  /\ DoveDone
  /\ UNCHANGED <<dovePosts, overdue, tells, lines, telling, rounds, ended, copies, skipped, broken, stops>>

DoveJudges ==
  /\ DoveNow("turn") /\ ~ended /\ Head(works).do = "carry" /\ post[DoveAt] = "judging" /\ DoveAt \notin plain
  /\ stage' = "judge"
  /\ UNCHANGED <<dovePosts, overdue, tells, lines, works, telling, rounds, ended, copies, skipped, broken, stops>>

\* Sent without a judge, or as the owner decided.
DoveGoes ==
  /\ DoveNow("turn") /\ ~ended
  /\ \/ Head(works).do = "carry" /\ post[DoveAt] = "judging" /\ DoveAt \in plain
     \/ Head(works).do = "approved" /\ post[DoveAt] = "sending" /\ approval[DoveAt] = "approved"
  /\ post' = [post EXCEPT ![DoveAt] = "sending"] /\ stage' = "slack"
  /\ UNCHANGED <<plain, verdict, approval, results, overdue, tells, lines, works, telling, rounds, ended, copies, skipped, broken, stops>>

\* returnedBefore(): the drafts turned back in a row just before this one.
ReturnedBefore(p) ==
  LET others == {q \in 1..(p - 1) \ plain : post[q] \notin {"none", "judging"}}
  IN Cardinality({q \in others : \A r \in others : r >= q => verdict[r] = "return"})

DoveVerdict(p, judged) == IF judged = "return" /\ ReturnedBefore(p) >= MaxReturns THEN "rewrite-limit" ELSE judged

\* carry(), after the judges: sent, turned back, or handed to the owner with an approval.
DoveDecides(judged) ==
  /\ DoveNow("judge") /\ ~ended
  /\ LET v == DoveVerdict(DoveAt, judged) IN
     /\ verdict' = [verdict EXCEPT ![DoveAt] = v]
     /\ CASE v = "send" ->
               /\ post' = [post EXCEPT ![DoveAt] = "sending"] /\ stage' = "slack"
               /\ UNCHANGED <<approval, results, works, rounds, skipped>>
          [] v = "return" ->
               /\ post' = [post EXCEPT ![DoveAt] = "returned"] /\ DoveTells(DoveAt, "returned") /\ DoveDone
               /\ UNCHANGED approval
          [] OTHER ->
               /\ post' = [post EXCEPT ![DoveAt] = "pending"] /\ approval' = [approval EXCEPT ![DoveAt] = "pending"]
               /\ DoveTells(DoveAt, "to_owner") /\ DoveDone
  /\ UNCHANGED <<plain, overdue, tells, lines, telling, ended, copies, broken, stops>>

\* The server is stopping: the draft is judged again by the next start.
DoveJudgedLate ==
  /\ DoveNow("judge") /\ ended /\ DoveDone
  /\ UNCHANGED <<dovePosts, overdue, tells, lines, telling, rounds, ended, copies, skipped, broken, stops>>

\* deliver(): Slack takes it, answered or not, or it is not sent.
DoveDelivers ==
  /\ DoveNow("slack")
  /\ copies' = [copies EXCEPT ![DoveAt] = @ + 1] /\ stage' = "answer"
  /\ UNCHANGED <<dovePosts, overdue, tells, lines, works, telling, rounds, ended, skipped, broken, stops>>

DoveSent ==
  /\ DoveNow("answer")
  /\ post' = [post EXCEPT ![DoveAt] = "sent"] /\ DoveTells(DoveAt, "sent") /\ DoveDone
  /\ UNCHANGED <<plain, verdict, approval, overdue, tells, lines, telling, ended, copies, broken, stops>>

\* Slack refuses it, its target is gone, or no answer comes.
DoveFails ==
  /\ stage \in {"slack", "answer"} /\ works # <<>>
  /\ post' = [post EXCEPT ![DoveAt] = "failed"] /\ DoveTells(DoveAt, "not_sent") /\ DoveDone
  /\ UNCHANGED <<plain, verdict, approval, overdue, tells, lines, telling, ended, copies, broken, stops>>

-----------------------------------------------------------------------------
(* The owner.                                                               *)

\* Approving the draft as it is and approving her own text of it are one decision here.
DoveOutcomes == [approve |-> "approved", reject |-> "rejected"]

\* expire(): each approval past its time, by a conditional update.
DoveExpired == {p \in overdue : approval[p] = "pending"}

DoveExpires(p) ==
  /\ p \in DoveExpired
  /\ approval' = [approval EXCEPT ![p] = "expired"] /\ post' = [post EXCEPT ![p] = "expired"]
  /\ DoveTells(p, "expired")
  /\ UNCHANGED <<plain, verdict, overdue, tells, lines, works, stage, telling, ended, copies, broken, stops>>

\* decide(): what is past its time expires first; of several devices' decisions the first is taken.
DoveOwnerDecides(p, decision) ==
  /\ approval[p] = "pending" /\ DoveExpired = {}
  /\ approval' = [approval EXCEPT ![p] = DoveOutcomes[decision]]
  /\ IF decision = "reject"
       THEN /\ post' = [post EXCEPT ![p] = "rejected"] /\ DoveTells(p, "rejected")
            /\ UNCHANGED works
       ELSE /\ post' = [post EXCEPT ![p] = "sending"] /\ works' = Append(works, [do |-> "approved", of |-> p])
            /\ UNCHANGED <<results, rounds, skipped>>
  /\ UNCHANGED <<plain, verdict, overdue, tells, lines, stage, telling, ended, copies, broken, stops>>

DoveTimePasses(p) ==
  /\ approval[p] = "pending" /\ p \notin overdue
  /\ overdue' = overdue \cup {p}
  /\ UNCHANGED <<dovePosts, tells, lines, works, stage, telling, rounds, ended, copies, skipped, broken, stops>>

-----------------------------------------------------------------------------
(* The process.                                                             *)

\* close(): what waits for Slack or the judge goes on until the process ends.
DoveClose ==
  /\ ~ended /\ stops < MaxStops
  /\ ended' = TRUE /\ stops' = stops + 1
  /\ UNCHANGED <<dovePosts, overdue, tells, lines, works, stage, telling, rounds, copies, skipped, broken>>

\* Mutant: what was being sent is carried out again.
DoveResumedAgain(p) == IF post[p] = "sending" /\ verdict[p] = "send" THEN "judging" ELSE post[p]

\* resume(): what was caught on its way to Slack failed; whether it got there is not known.
DoveResumed(p) == IF post[p] = "sending" THEN "failed" ELSE post[p]

\* The rows of some posts, as they are read: each once, in the order they were taken.
DoveInOrder(left) ==
  {rows \in [1..Cardinality(left) -> [do : {"carry"}, of : left]] :
     /\ \A i, j \in DOMAIN rows : i < j => rows[i].of < rows[j].of
     /\ \A p \in left : \E i \in DOMAIN rows : rows[i].of = p}

\* Mutant: what was being judged is left so.
DoveLeftNothing(states) == DoveInOrder({p \in Posts : states[p] = "sending"})

\* What is carried out by the next process: the drafts still to be judged.
DoveLeft(states) == DoveInOrder({p \in Posts : states[p] = "judging"})

\* The process ends, stopped or killed, and the next begins.
DoveRestart ==
  /\ (ended /\ UNCHANGED stops) \/ (stops < MaxStops /\ stops' = stops + 1)
  /\ post' = [p \in Posts |-> DoveResumed(p)]
  /\ results' = [p \in Posts |-> IF post'[p] = "failed" /\ post[p] = "sending" THEN Append(results[p], "not_sent") ELSE results[p]]
  /\ works' \in DoveLeft(post')
  /\ stage' = "turn" /\ telling' = DoveNotTelling /\ rounds' = 1 /\ ended' = FALSE /\ broken' = FALSE
  /\ UNCHANGED <<plain, verdict, approval, overdue, tells, lines, copies, skipped>>

-----------------------------------------------------------------------------
DoveInit ==
  /\ post = [p \in Posts |-> "none"] /\ plain = {} /\ verdict = [p \in Posts |-> "none"] /\ approval = [p \in Posts |-> "none"]
  /\ overdue = {} /\ results = [p \in Posts |-> <<>>] /\ tells = [p \in Posts |-> 0] /\ lines = [p \in Posts |-> 0]
  /\ works = <<>> /\ stage = "turn" /\ telling = DoveNotTelling /\ rounds = 0 /\ ended = FALSE
  /\ copies = [p \in Posts |-> 0] /\ skipped = {} /\ broken = FALSE /\ stops = 0

DoveRound ==
  \/ DoveRoundBegins \/ DoveRoundWrites \/ DoveRoundMarks \/ DoveRoundEnds
  \/ \E p \in Posts : DoveRoundReads(p)

DoveWork ==
  \/ DovePasses \/ DoveJudges \/ DoveGoes \/ DoveJudgedLate \/ DoveDelivers \/ DoveSent \/ DoveFails
  \/ \E judged \in {"send", "return", "owner"} : DoveDecides(judged)

DoveNext ==
  \/ \E p \in Posts, reaction \in BOOLEAN : DoveAsk(p, reaction)
  \/ \E p \in Posts : DoveExpires(p) \/ DoveTimePasses(p) \/ \E d \in DOMAIN DoveOutcomes : DoveOwnerDecides(p, d)
  \/ DoveRound \/ DoveRoundFails \/ DoveWork \/ DoveClose \/ DoveRestart

DoveSpec == DoveInit /\ [][DoveNext]_doveVars

\* Each chain goes on, calls end by their time limits, time passes, and the look at the approvals comes by the clock.
DoveFairness ==
  /\ WF_doveVars(part = "dove" /\ DoveRound) /\ WF_doveVars(part = "dove" /\ DoveWork) /\ WF_doveVars(part = "dove" /\ ended /\ DoveRestart)
  /\ \A p \in Posts : WF_doveVars(part = "dove" /\ DoveTimePasses(p)) /\ WF_doveVars(part = "dove" /\ DoveExpires(p))

-----------------------------------------------------------------------------
(* Properties.                                                              *)

DovePostStates == {"none", "judging", "sending", "pending"} \cup DoveOver

DoveTypeOK ==
  /\ post \in [Posts -> DovePostStates]
  /\ plain \subseteq Posts
  /\ \A p \in Posts : /\ approval[p] \in {"none", "pending", "approved", "rejected", "expired"}
                      /\ tells[p] \in 0..Len(results[p]) /\ lines[p] \in 0..Len(results[p])
  /\ stage \in {"turn", "judge", "slack", "answer"} /\ (works = <<>> => stage = "turn")
  /\ rounds \in 0..1 /\ telling.of \in Posts \cup {0} /\ stops \in 0..MaxStops

\* Slack gets a post at most once, whatever the owner's devices, the stops and the kills do.
PostedOnce == \A p \in Posts : copies[p] <= 1

\* Nothing reaches Slack but what a judge let through, what the owner approved, and what nobody judges.
PostedAsAllowed == \A p \in Posts : copies[p] > 0 => p \in plain \/ verdict[p] = "send" \/ approval[p] = "approved"

\* What became of an approval is final.
DecisionIsFinal == [][\A p \in Posts : approval[p] \notin {"none", "pending"} => approval'[p] = approval[p]]_approval

\* At most MAX_RETURNS drafts in a row are turned back: the next goes to the owner.
ReturnsAreFew ==
  \A p \in Posts : (p + MaxReturns \in Posts /\ p..(p + MaxReturns) \cap plain = {}) => \E q \in p..(p + MaxReturns) : post[q] # "returned"

\* A result she was told of is in the file the attention names.
ToldIsWritten == \A p \in Posts : tells[p] <= lines[p]

\* What a post came to has a result to tell, unless the server was stopping as it came.
EndsHaveResults == \A p \in Posts : (post[p] \in DoveOver \cup {"pending"} /\ p \notin skipped) => results[p] # <<>>

\* While the server is up, every post that came to an end has a result: what a stop left untold, the next start tells.
NoEndIsSilent == ~ended => \A p \in Posts : post[p] \in DoveOver => results[p] # <<>>

\* Every result is told, by this process or the next, unless a write of them failed: then by the next start.
ResultsAreTold == \A p \in Posts : (tells[p] < Len(results[p])) ~> (tells[p] = Len(results[p]) \/ broken)

\* Every draft comes to an end: no approval waits forever.
PostsEnd == \A p \in Posts : (post[p] # "none") ~> (post[p] \in DoveOver)

\* A post goes out once and as it was allowed, and what it came to has a result that is written before it is told,
\* whatever the owner's devices, the stops and the kills do.
DoveSafety == PostedOnce /\ PostedAsAllowed /\ ReturnsAreFew /\ ToldIsWritten /\ EndsHaveResults

\* Every draft ends, and what it came to is told.
DoveLiveness == ResultsAreTold /\ PostsEnd
=============================================================================
