------------------------------ MODULE WebChat ------------------------------
(***************************************************************************)
(* One session of the console's chat (ui/chat.ts and the chat handlers of  *)
(* ui/server.ts): its turns, the agent that answers a turn as a child      *)
(* process (interaction/agent-mode.ts), the run that the session is listed *)
(* with, so that a stop, a deletion or a closed request can end it, and    *)
(* the record of the session (interaction/session-catalog.ts).             *)
(*                                                                         *)
(* Nothing queues the turns of a session: two pages may send side by side. *)
(* The text of the messages, the artifacts and the budget (TokenMeter) are *)
(* left out.                                                               *)
(***************************************************************************)
EXTENDS Naturals, FiniteSets

CONSTANTS
  MaxTurns,  \* bound: the messages that are sent
  MaxStops,  \* bound: the stops and deletions that are asked for
  Loads      \* how much happens: turns, stops, crashes, and whether turns overlap

Turns == 1 .. MaxTurns
Stops == 1 .. MaxStops
Kinds == {"talk", "task", "stop", "new"}

VARIABLES
  session,  \* the record of the catalog: live, and the thread to resume
  turn,     \* turn[t]: the t-th message
  agent,    \* agent[t]: the child that answers it
  listed,   \* the turn whose run activeRuns holds for the session, or 0
  stop,     \* stop[s]: the s-th request to stop or delete
  said,     \* the messages stored for the session: how many of each turn by each side
  load

vars == <<session, turn, agent, listed, stop, said, load>>

NoTurn == [pc |-> "none", kind |-> "talk", resumes |-> 0, awaits |-> 0, open |-> FALSE]
NoAgent == [child |-> "none", good |-> FALSE, stopped |-> FALSE, term |-> FALSE, thread |-> 0]
NoStop == [pc |-> "none", kind |-> "stop", run |-> 0]

Init ==
  /\ session = [live |-> TRUE, thread |-> 0]
  /\ turn = [t \in Turns |-> NoTurn]
  /\ agent = [t \in Turns |-> NoAgent]
  /\ listed = 0
  /\ stop = [s \in Stops |-> NoStop]
  /\ said = [t \in Turns |-> [user |-> 0, assistant |-> 0]]
  /\ load \in Loads

Busy == {t \in Turns : turn[t].pc \notin {"none", "over", "refused", "cut"}}

(***************************************************************************)
(* stopWebChatSession and run.stop: whatever run is listed is ended, and   *)
(* the caller waits until its child is gone.                               *)
(***************************************************************************)
Ended(r) ==
  IF r = 0 \/ agent[r].child \in {"none", "closed"} THEN agent
  ELSE [agent EXCEPT ![r].stopped = TRUE, ![r].term = @ \/ agent[r].child = "running"]

Gone(r) == r \notin {t \in Turns : agent[t].child = "running"}

(***************************************************************************)
(* runWebChatTurn                                                          *)
(***************************************************************************)
Stored(t, side) == said' = [said EXCEPT ![t][side] = @ + 1]

(* The session is looked up and the message stored; a command is carried   *)
(* out (a new session archives this one), anything else is for an agent.   *)
Send(t, k) ==
  /\ load.turns > 0 /\ load' = [load EXCEPT !.turns = @ - 1]
  /\ t = 1 + Cardinality({u \in Turns : turn[u].pc # "none"})
  /\ load.overlap \/ Busy = {}
  /\ UNCHANGED <<listed, stop>>
  /\ IF ~session.live
     THEN /\ turn' = [turn EXCEPT ![t].pc = "refused"]
          /\ UNCHANGED <<session, agent, said>>
     ELSE /\ turn' = [turn EXCEPT ![t] =
                        [pc |-> CASE k = "talk" -> "starting" [] k = "stop" -> "stopping" [] OTHER -> "command",
                         kind |-> k, resumes |-> session.thread, open |-> TRUE,
                         awaits |-> IF k = "stop" THEN listed ELSE 0]]
          /\ agent' = IF k = "stop" THEN Ended(listed) ELSE agent
          /\ session' = IF k = "new" THEN [session EXCEPT !.live = FALSE] ELSE session
          /\ Stored(t, "user")

Over(t) == turn' = [turn EXCEPT ![t].pc = "over"] /\ Stored(t, "assistant")

(* A command is answered: done, or with what failed.                       *)
Answer(t) ==
  /\ turn[t].pc \in {"command", "stopping"} /\ Gone(turn[t].awaits)
  /\ Over(t) /\ UNCHANGED <<session, agent, listed, stop, load>>

(* Mutant of Start: the run is not listed.                                 *)
StartUnlisted(t) ==
  /\ turn[t].pc = "starting"
  /\ turn' = [turn EXCEPT ![t].pc = "working"]
  /\ agent' = [agent EXCEPT ![t].child = "running"]
  /\ UNCHANGED <<session, listed, stop, said, load>>

(* The prompt is ready and the child spawned, or that failed, or the       *)
(* policy refuses the agent.                                               *)
Start(t) ==
  /\ turn[t].pc = "starting"
  /\ \/ /\ turn' = [turn EXCEPT ![t].pc = "working"]
        /\ agent' = [agent EXCEPT ![t].child = "running"]
        /\ listed' = t /\ UNCHANGED said
     \/ Over(t) /\ UNCHANGED <<agent, listed>>
  /\ UNCHANGED <<session, stop, load>>

(* updateSessionByScopeId: an archived record is left alone.               *)
Kept(thread) ==
  IF ~session.live \/ thread = 0 THEN session ELSE [session EXCEPT !.thread = thread]

(* The child is closed: its thread and its answer, or what failed, are     *)
(* kept, and the entry of the session is deleted, whose run it ever holds. *)
Close(t) ==
  /\ agent[t].child = "exited" /\ turn[t].pc = "working"
  /\ agent' = [agent EXCEPT ![t].child = "closed"]
  /\ session' = IF agent[t].good \/ agent[t].stopped THEN Kept(agent[t].thread) ELSE session
  /\ listed' = 0
  /\ Over(t) /\ UNCHANGED <<stop, load>>

(***************************************************************************)
(* The child                                                               *)
(***************************************************************************)
ChildEnds(t, good) ==
  \E thread \in {0, turn[t].resumes, t} :
    agent' = [agent EXCEPT ![t].child = "exited", ![t].good = good, ![t].thread = thread]

Exit(t) ==
  /\ agent[t].child = "running"
  /\ \E good \in BOOLEAN : ChildEnds(t, good)
  /\ UNCHANGED <<session, turn, listed, stop, said, load>>

Timeout(t) ==
  /\ agent[t].child = "running" /\ ~agent[t].stopped /\ turn[t].pc = "working"
  /\ agent' = Ended(t)
  /\ UNCHANGED <<session, turn, listed, stop, said, load>>

(* Five seconds after SIGTERM the child gets SIGKILL.                      *)
Kill(t) ==
  /\ agent[t].child = "running" /\ agent[t].term /\ turn[t].pc = "working"
  /\ ChildEnds(t, FALSE)
  /\ UNCHANGED <<session, turn, listed, stop, said, load>>

(***************************************************************************)
(* chatStop, chatDeleteSession and the end of a request                    *)
(***************************************************************************)
Ask(s, k) ==
  /\ load.stops > 0 /\ load' = [load EXCEPT !.stops = @ - 1]
  /\ s = 1 + Cardinality({r \in Stops : stop[r].pc # "none"})
  /\ stop' = [stop EXCEPT ![s] = [pc |-> "waiting", kind |-> k, run |-> listed]]
  /\ agent' = Ended(listed)
  /\ UNCHANGED <<session, turn, listed, said>>

(* The child is gone: a deletion archives the record.                      *)
Answered(s) ==
  /\ stop[s].pc = "waiting" /\ Gone(stop[s].run)
  /\ stop' = [stop EXCEPT ![s].pc = "answered"]
  /\ session' = IF stop[s].kind = "delete" THEN [session EXCEPT !.live = FALSE] ELSE session
  /\ UNCHANGED <<turn, agent, listed, said, load>>

(* The request of a turn closes, whenever its connection or the server     *)
(* says so, and ends the run that is listed then.                          *)
Disconnect(t) ==
  /\ load.closes > 0 /\ load' = [load EXCEPT !.closes = @ - 1]
  /\ turn[t].open /\ turn' = [turn EXCEPT ![t].open = FALSE]
  /\ agent' = Ended(listed)
  /\ UNCHANGED <<session, listed, stop, said>>

(* The service ends: the turns are cut off, the children stay.             *)
Crash ==
  /\ load.crashes > 0 /\ load' = [load EXCEPT !.crashes = @ - 1]
  /\ turn' = [t \in Turns |-> IF t \in Busy THEN [turn[t] EXCEPT !.pc = "cut", !.open = FALSE]
                              ELSE [turn[t] EXCEPT !.open = FALSE]]
  /\ stop' = [s \in Stops |-> IF stop[s].pc = "waiting" THEN [stop[s] EXCEPT !.pc = "cut"] ELSE stop[s]]
  /\ listed' = 0
  /\ UNCHANGED <<session, agent, said>>

TurnStep(t) == Start(t) \/ Answer(t) \/ Close(t) \/ Timeout(t) \/ Kill(t)

Next ==
  \/ \E t \in Turns : TurnStep(t) \/ Exit(t) \/ Disconnect(t) \/ \E k \in Kinds : Send(t, k)
  \/ \E s \in Stops : Answered(s) \/ Ask(s, "stop") \/ Ask(s, "delete")
  \/ Crash

Spec == Init /\ [][Next]_vars

(* What is awaited comes, and the agent has a time limit; it need not end  *)
(* by itself.                                                              *)
Fairness ==
  /\ \A t \in Turns : WF_vars(TurnStep(t))
  /\ \A s \in Stops : WF_vars(Answered(s))

FairSpec == Spec /\ Fairness

(***************************************************************************)
(* Properties                                                              *)
(***************************************************************************)
TypeOK ==
  /\ session \in [live : BOOLEAN, thread : 0 .. MaxTurns]
  /\ turn \in [Turns -> [pc : {"none", "starting", "working", "command", "stopping", "over", "refused", "cut"},
                         kind : Kinds, resumes : 0 .. MaxTurns, awaits : 0 .. MaxTurns, open : BOOLEAN]]
  /\ agent \in [Turns -> [child : {"none", "running", "exited", "closed"}, good : BOOLEAN, stopped : BOOLEAN,
                          term : BOOLEAN, thread : 0 .. MaxTurns]]
  /\ listed \in 0 .. MaxTurns
  /\ stop \in [Stops -> [pc : {"none", "waiting", "answered", "cut"}, kind : {"stop", "delete"}, run : 0 .. MaxTurns]]

(* A message that is dealt with has its one answer.                        *)
OneAnswer == \A t \in Turns : turn[t].pc = "over" => said[t] = [user |-> 1, assistant |-> 1]

(* While the turns of the session come one after the other, its agent at   *)
(* work is the one that a stop reaches,                                    *)
Stoppable ==
  ~load.overlap => \A t \in Turns : turn[t].pc = "working" => listed = t

(* and a turn resumes what the last one left.                              *)
ResumesLatest ==
  ~load.overlap => \A t \in Turns : turn[t].pc = "working" => turn[t].resumes = session.thread

(* Every message is dealt with, and every stop answered, unless the        *)
(* service ends: an agent that hangs is ended by its time limit, and one   *)
(* that no stop reaches, too.                                              *)
Settled == Busy = {} /\ \A s \in Stops : stop[s].pc # "waiting"

Settles == <>[]Settled

(* An archived session takes no message any more and does not come back.   *)
StaysArchived ==
  ~session.live => ~session'.live /\ \A t \in Turns : said'[t].user = said[t].user

(* server.ts:1543 deletes a session after it has stopped "any in-flight    *)
(* run first so an orphaned stream cannot keep writing".                   *)
DeletedIsQuiet ==
  (\E s \in Stops : stop[s] = [stop[s] EXCEPT !.pc = "answered", !.kind = "delete"])
    => \A t \in Turns : agent[t].child # "running"
=============================================================================
