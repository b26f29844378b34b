------------------------------- MODULE Health -------------------------------
(***************************************************************************)
(* The circuit breaker and the health check of send/send.go: which         *)
(* neighbours Nextmsg still sends to, how a failed send leads to a check   *)
(* of the neighbour, how the check declares it dead and how recover_node   *)
(* brings it back, while the operator sets and deletes neighbours.         *)
(*                                                                         *)
(* Actors: the goroutines inside Nextmsg (Sender), the timer callbacks of  *)
(* set_aliveFail (Slot, for each address), auto_chk, recover_node, the     *)
(* handlers of "neighbor set" and "neighbor del" (Request, one goroutine   *)
(* per HTTP request), and the neighbours themselves, which come and go.    *)
(*                                                                         *)
(* Abstracted: durations.  A timer may fire at any time after it was set,  *)
(* and the 180 s of a check mark may pass at any time: more than happens,  *)
(* for a check is over after 70 s unless its timers are held up.  The      *)
(* state of an address is kept under the address and not behind a pointer: *)
(* what is stored in a state already deleted is lost, or goes to the state *)
(* that has come in its place.  An entry that is twice in nextloop, as     *)
(* after setting a neighbour anew, is one entry here.                      *)
(***************************************************************************)
EXTENDS Integers

CONSTANTS
  Token,       \* the neighbours, named by their tokens
  Addr,        \* their URLs, but for the empty one, which Append refuses
  Sender,      \* goroutines inside Nextmsg
  Slot,        \* checks of one address that may be under way at once
  Request,     \* the operator's requests that may be handled at once
  None,        \* no address, no table, no token
  Initial,     \* the neighbours in the token file at the start
  FileOK,      \* the token file could be read, so that Send_Init ran
  FirstRounds, \* rounds of recover_node a dead neighbour waits at first
  MaxFail,     \* cap on failNum (64)
  Rounds       \* Rounds[n]: rounds to wait after n failed recoveries

Table == [wait : Int, fails : 0..MaxFail]
Stage == {"free", "first", "second", "dead"}
NextMsg == Token \X Addr   \* an entry of nextloop
Job == [at : {"idle", "append", "load", "alive", "state", "table"},
        token : Token \cup {None}, addr : Addr \cup {None},
        copy : SUBSET NextMsg, left : SUBSET Addr]
Idle == [at |-> "idle", token |-> None, addr |-> None, copy |-> {}, left |-> {}]

ASSUME SlotAssumption == Slot # {}

ASSUME HealthAssumption ==
  /\ Initial \subseteq NextMsg
  /\ FileOK \in BOOLEAN
  /\ None \notin Token \cup Addr /\ None \notin Table
  /\ MaxFail \in Nat /\ FirstRounds \in Nat /\ Rounds \in [0..MaxFail -> Nat]

VARIABLES
  up,       \* addresses whose neighbour answers
  loop,     \* nextloop, as the set of its entries
  reg,      \* addresses that have a state in stateList
  alive,    \* those whose state says alive
  black,    \* failed sends in a row; 2 stands for 2 or more
  cool,     \* addresses whose breaker has not cooled down (tm in the future)
  dead,     \* dead[a]: the table of a in the list of dead nodes, or None
  checking, \* addresses with a mark in the map of checks under way
  chain,    \* chain[a][s]: where check s of address a is
  auto,     \* auto_chk: not started, starting, or sweeping
  sweep,    \* addresses auto_chk has yet to ping
  todo,     \* todo[a]: a's table in recover_node's copy of the list, or None
  fixing,   \* the address recover_node took off the list, or None
  busy,     \* busy[s]: the address sender s waits for, or None
  job,      \* job[q]: where request q is, with its copy of nextloop
  wiped     \* history: dead addresses that a late delete took off the list

lists == <<reg, alive, dead>>
sending == <<black, cool, busy>>
sweeping == <<auto, sweep>>
recovering == <<todo, fixing>>
checks == <<checking, chain>>
asking == <<job, wiped>>
vars == <<up, loop, lists, sending, sweeping, recovering, checks, asking>>

\* Sends are refused from the second failure on, until the breaker cools down.
Tripped(a) == black[a] = 2 /\ a \in cool

Init ==
  /\ up \in SUBSET Addr
  /\ loop = IF FileOK THEN Initial ELSE {}
  /\ reg = {} /\ alive = {} /\ cool = {}
  /\ black = [a \in Addr |-> 0]
  /\ dead = [a \in Addr |-> None]
  /\ checking = {}
  /\ chain = [a \in Addr |-> [s \in Slot |-> "free"]]
  /\ auto = IF FileOK THEN "starting" ELSE "off"
  /\ sweep = {}
  /\ todo = [a \in Addr |-> None]
  /\ fixing = None
  /\ busy = [s \in Sender |-> None]
  /\ job = [q \in Request |-> Idle]
  /\ wiped = {}

-----------------------------------------------------------------------------
(* set_aliveFail and its timers.                                           *)

\* A check begins unless one is marked; an old mark is taken over.
BeginCheck(a) ==
  \/ /\ a \in checking
     /\ UNCHANGED checks
  \/ \E s \in Slot :
       /\ chain[a][s] = "free"
       /\ checking' = checking \cup {a}
       /\ chain' = [chain EXCEPT ![a][s] = "first"]

\* Mutant: the mark stays when the check ends.
LeaveMark(a, s) ==
  /\ chain' = [chain EXCEPT ![a][s] = "free"]
  /\ UNCHANGED checking

\* The check of slot s ends and takes the mark away, whoever set it.
EndCheck(a, s) ==
  /\ checking' = checking \ {a}
  /\ chain' = [chain EXCEPT ![a][s] = "free"]

\* Mutant: the check ends with the first ping whatever it finds.
PingOnce(a, s) ==
  /\ chain[a][s] = "first"
  /\ EndCheck(a, s)
  /\ UNCHANGED <<up, loop, lists, sending, sweeping, recovering, asking>>

\* The ping 10 s after the failure.
FirstPing(a, s) ==
  /\ chain[a][s] = "first"
  /\ IF a \in up THEN EndCheck(a, s)
     ELSE /\ chain' = [chain EXCEPT ![a][s] = "second"]
          /\ UNCHANGED checking
  /\ UNCHANGED <<up, loop, lists, sending, sweeping, recovering, asking>>

\* The ping 40 s later: a neighbour that is still known and does not answer
\* is not alive any more...
SecondPing(a, s) ==
  /\ chain[a][s] = "second"
  /\ IF a \in up \/ a \notin reg
     THEN EndCheck(a, s) /\ UNCHANGED alive
     ELSE /\ alive' = alive \ {a}
          /\ chain' = [chain EXCEPT ![a][s] = "dead"]
          /\ UNCHANGED checking
  /\ UNCHANGED <<up, loop, reg, dead, sending, sweeping, recovering, asking>>

\* ... and then joins the list of dead nodes, with a new table.
ListDead(a, s) ==
  /\ chain[a][s] = "dead"
  /\ dead' = [dead EXCEPT ![a] = [wait |-> FirstRounds, fails |-> 0]]
  /\ EndCheck(a, s)
  /\ UNCHANGED <<up, loop, reg, alive, sending, sweeping, recovering, asking>>

-----------------------------------------------------------------------------
(* Nextmsg, for one neighbour of its loop: a copy, so it may have left     *)
(* nextloop since.                                                         *)

\* The neighbour is known, alive and not tripped: the message goes out.
SendStart(s, a) ==
  /\ busy[s] = None
  /\ a \in reg /\ a \in alive /\ ~Tripped(a)
  /\ black' = IF black[a] = 2 THEN [black EXCEPT ![a] = 0] ELSE black
  /\ busy' = [busy EXCEPT ![s] = a]
  /\ UNCHANGED <<up, loop, lists, cool, sweeping, recovering, checks, asking>>

\* A neighbour that is not alive is skipped; its cooled breaker closes.
SkipDead(a) ==
  /\ a \in reg \ alive
  /\ black[a] = 2 /\ a \notin cool
  /\ black' = [black EXCEPT ![a] = 0]
  /\ UNCHANGED <<up, loop, lists, cool, busy, sweeping, recovering, checks, asking>>

\* The neighbour answered +OK.
SendOK(s) ==
  LET a == busy[s] IN
  /\ a # None /\ a \in up
  /\ black' = IF a \in reg THEN [black EXCEPT ![a] = 0] ELSE black
  /\ busy' = [busy EXCEPT ![s] = None]
  /\ UNCHANGED <<up, loop, lists, cool, sweeping, recovering, checks, asking>>

\* It did not: fail counts towards the breaker and asks for a check.
SendFail(s) ==
  LET a == busy[s] IN
  /\ a # None /\ a \notin up
  /\ IF a \in reg
     THEN /\ black' = [black EXCEPT ![a] = IF @ = 2 THEN 2 ELSE @ + 1]
          /\ cool' = cool \cup {a}
     ELSE UNCHANGED <<black, cool>>
  /\ BeginCheck(a)
  /\ busy' = [busy EXCEPT ![s] = None]
  /\ UNCHANGED <<up, loop, lists, sweeping, recovering, asking>>

\* 30 seconds after the last failure.
CoolDown(a) ==
  /\ a \in cool
  /\ cool' = cool \ {a}
  /\ UNCHANGED <<up, loop, lists, black, busy, sweeping, recovering, checks, asking>>

-----------------------------------------------------------------------------
(* auto_chk and recover_node.                                              *)

\* Every neighbour of the loop gets a state and is alive (a loop without
\* waiting, one step here); all are pinged.
AutoStart ==
  /\ auto = "starting"
  /\ auto' = "sweeping"
  /\ reg' = reg \cup {e[2] : e \in loop}
  /\ alive' = alive \cup {e[2] : e \in loop}
  /\ sweep' = {e[2] : e \in loop}
  /\ UNCHANGED <<up, loop, dead, sending, recovering, checks, asking>>

\* Every 30 minutes the neighbours alive at that moment are pinged.
SweepStart ==
  /\ auto = "sweeping" /\ sweep = {}
  /\ sweep' = reg \cap alive
  /\ UNCHANGED <<up, loop, lists, sending, auto, recovering, checks, asking>>

SweepPing(a) ==
  /\ a \in sweep
  /\ sweep' = sweep \ {a}
  /\ IF a \in up THEN UNCHANGED checks ELSE BeginCheck(a)
  /\ UNCHANGED <<up, loop, lists, sending, auto, recovering, asking>>

\* Mutant: recover_node gives up a node after its first failed recovery.
RecoverOnce ==
  /\ auto # "off" /\ fixing = None
  /\ \A a \in Addr : todo[a] = None
  /\ todo' = [a \in Addr |-> IF dead[a] # None /\ dead[a].fails = 0
                              THEN dead[a] ELSE None]
  /\ UNCHANGED <<up, loop, lists, sending, sweeping, fixing, checks, asking>>

\* Every two minutes recover_node copies the list of dead nodes.
RecoverStart ==
  /\ auto # "off" /\ fixing = None
  /\ \A a \in Addr : todo[a] = None
  /\ todo' = dead
  /\ UNCHANGED <<up, loop, lists, sending, sweeping, fixing, checks, asking>>

\* A table on the copy is the one on the list unless it was replaced.
PutTable(a, table) ==
  dead' = IF dead[a] = todo[a] THEN [dead EXCEPT ![a] = table] ELSE dead

\* A node whose time has not come waits one round less.
RecoverWait(a) ==
  /\ fixing = None /\ todo[a] # None
  /\ todo[a].wait - 1 > 0
  /\ PutTable(a, [todo[a] EXCEPT !.wait = @ - 1])
  /\ todo' = [todo EXCEPT ![a] = None]
  /\ UNCHANGED <<up, loop, reg, alive, sending, sweeping, fixing, checks, asking>>

\* Mutant: failNum is not capped.
FailUncapped(a) ==
  LET n == todo[a].fails + 1 IN
  /\ fixing = None /\ todo[a] # None
  /\ todo[a].wait - 1 <= 0 /\ a \notin up
  /\ PutTable(a, [wait |-> Rounds[IF n < MaxFail THEN n ELSE MaxFail], fails |-> n])
  /\ todo' = [todo EXCEPT ![a] = None]
  /\ UNCHANGED <<up, loop, reg, alive, sending, sweeping, fixing, checks, asking>>

\* Otherwise it is pinged: without an answer it waits longer the next time...
RecoverFail(a) ==
  LET n == IF todo[a].fails < MaxFail THEN todo[a].fails + 1 ELSE MaxFail IN
  /\ fixing = None /\ todo[a] # None
  /\ todo[a].wait - 1 <= 0 /\ a \notin up
  /\ PutTable(a, [wait |-> Rounds[n], fails |-> n])
  /\ todo' = [todo EXCEPT ![a] = None]
  /\ UNCHANGED <<up, loop, reg, alive, sending, sweeping, fixing, checks, asking>>

\* Mutant: the node leaves the list and is not declared alive.
DelistOnly(a) ==
  /\ fixing = None /\ todo[a] # None
  /\ todo[a].wait - 1 <= 0 /\ a \in up
  /\ dead' = [dead EXCEPT ![a] = None]
  /\ todo' = [todo EXCEPT ![a] = None]
  /\ UNCHANGED <<up, loop, reg, alive, sending, sweeping, fixing, checks, asking>>

\* ... and with one it leaves the list...
Delist(a) ==
  /\ fixing = None /\ todo[a] # None
  /\ todo[a].wait - 1 <= 0 /\ a \in up
  /\ dead' = [dead EXCEPT ![a] = None]
  /\ todo' = [todo EXCEPT ![a] = None]
  /\ fixing' = a
  /\ UNCHANGED <<up, loop, reg, alive, sending, sweeping, checks, asking>>

\* ... and is then alive again, if it is still known.
Revive ==
  /\ fixing # None
  /\ alive' = IF fixing \in reg THEN alive \cup {fixing} ELSE alive
  /\ fixing' = None
  /\ UNCHANGED <<up, loop, reg, dead, sending, sweeping, todo, checks, asking>>

-----------------------------------------------------------------------------
(* The operator's "neighbor set" and "neighbor del".  Nothing orders the   *)
(* accesses of two requests to nextloop, stateList and the dead list.      *)

\* Append copies nextloop...
AppendBegin(q, t, a) ==
  /\ job[q].at = "idle"
  /\ job' = [job EXCEPT ![q] = [at |-> "append", token |-> t, addr |-> a,
                                copy |-> loop, left |-> {}]]
  /\ UNCHANGED <<wiped, up, loop, lists, sending, sweeping, recovering, checks>>

\* ... replaces it by the copy with the new entry...
AppendWrite(q) ==
  /\ job[q].at = "append"
  /\ loop' = job[q].copy \cup {<<job[q].token, job[q].addr>>}
  /\ job' = [job EXCEPT ![q].at = "load", ![q].copy = {}]
  /\ UNCHANGED <<wiped, up, lists, sending, sweeping, recovering, checks>>

\* ... finds the state of the address or makes one, which is not alive...
LoadOrStore(q) ==
  /\ job[q].at = "load"
  /\ reg' = reg \cup {job[q].addr}
  /\ job' = [job EXCEPT ![q].at = "alive"]
  /\ UNCHANGED <<wiped, up, loop, alive, dead, sending, sweeping, recovering, checks>>

\* ... and sets it alive, whatever the health check has found.
SetAlive(q) ==
  LET a == job[q].addr IN
  /\ job[q].at = "alive"
  /\ alive' = IF a \in reg THEN alive \cup {a} ELSE alive
  /\ job' = [job EXCEPT ![q] = Idle]
  /\ wiped' = wiped \ {a}
  /\ UNCHANGED <<up, loop, reg, dead, sending, sweeping, recovering, checks>>

\* Remove goes through nextloop as it is now...
RemoveBegin(q, t) ==
  /\ job[q].at = "idle"
  /\ job' = [job EXCEPT ![q] =
               [at |-> "state", token |-> t, addr |-> None, copy |-> loop,
                left |-> {e[2] : e \in {e \in loop : e[1] = t}}]]
  /\ UNCHANGED <<wiped, up, loop, lists, sending, sweeping, recovering, checks>>

\* ... deletes the state of each address that goes with the token...
RemoveState(q, a) ==
  /\ job[q].at = "state" /\ a \in job[q].left
  /\ reg' = reg \ {a} /\ alive' = alive \ {a}
  /\ black' = [black EXCEPT ![a] = 0] /\ cool' = cool \ {a}
  /\ job' = [job EXCEPT ![q].at = "table", ![q].addr = a, ![q].left = @ \ {a}]
  /\ UNCHANGED <<wiped, up, loop, dead, busy, sweeping, recovering, checks>>

\* ... and then its place on the list of dead nodes...
RemoveTable(q) ==
  LET a == job[q].addr IN
  /\ job[q].at = "table"
  /\ dead' = [dead EXCEPT ![a] = None]
  /\ wiped' = wiped \cup ({a} \cap (reg \ alive))
  /\ job' = [job EXCEPT ![q].at = "state", ![q].addr = None]
  /\ UNCHANGED <<up, loop, reg, alive, sending, sweeping, recovering, checks>>

\* ... and replaces nextloop by the entries of other tokens it has seen.
RemoveWrite(q) ==
  /\ job[q].at = "state" /\ job[q].left = {}
  /\ loop' = {e \in job[q].copy : e[1] # job[q].token}
  /\ job' = [job EXCEPT ![q] = Idle]
  /\ UNCHANGED <<wiped, up, lists, sending, sweeping, recovering, checks>>

\* A neighbour comes up or goes down.
Flip(a) ==
  /\ up' = IF a \in up THEN up \ {a} ELSE up \cup {a}
  /\ UNCHANGED <<loop, lists, sending, sweeping, recovering, checks, asking>>

Check(a) == \E s \in Slot : FirstPing(a, s) \/ SecondPing(a, s) \/ ListDead(a, s)
Sending(s) == (\E a \in Addr : SendStart(s, a)) \/ SendOK(s) \/ SendFail(s)
Sweeping == AutoStart \/ SweepStart \/ \E a \in Addr : SweepPing(a)
Recovering == \/ RecoverStart \/ Revive
              \/ \E a \in Addr : RecoverWait(a) \/ RecoverFail(a) \/ Delist(a)

Beginning(q) == \E t \in Token : RemoveBegin(q, t) \/ \E a \in Addr : AppendBegin(q, t, a)
Handling(q) == \/ AppendWrite(q) \/ LoadOrStore(q) \/ SetAlive(q)
               \/ RemoveTable(q) \/ RemoveWrite(q)
               \/ \E a \in Addr : RemoveState(q, a)

Next == \/ \E a \in Addr : Check(a) \/ CoolDown(a) \/ Flip(a) \/ SkipDead(a)
        \/ \E s \in Sender : Sending(s)
        \/ Sweeping \/ Recovering
        \/ \E q \in Request : Beginning(q) \/ Handling(q)

Spec == Init /\ [][Next]_vars

\* Timers fire and pings end (they time out after ten seconds), so each check
\* and each of the two background goroutines goes on; a request once begun
\* waits for nothing.  Nothing is assumed of the senders, the neighbours and
\* the operator, who may go on sending requests.
FairSpec ==
  /\ Spec
  /\ \A a \in Addr, s \in Slot :
       WF_vars(FirstPing(a, s) \/ SecondPing(a, s) \/ ListDead(a, s))
  /\ WF_vars(Sweeping) /\ WF_vars(Recovering)
  /\ \A q \in Request : WF_vars(Handling(q))

-----------------------------------------------------------------------------
(* Properties.                                                             *)

\* The variables have their types (the one type invariant of this module).
TypeOK ==
  /\ up \subseteq Addr /\ loop \subseteq NextMsg
  /\ reg \subseteq Addr /\ alive \subseteq reg /\ cool \subseteq reg
  /\ black \in [Addr -> 0..2]
  /\ dead \in [Addr -> Table \cup {None}] /\ todo \in [Addr -> Table \cup {None}]
  /\ checking \subseteq Addr /\ chain \in [Addr -> [Slot -> Stage]]
  /\ auto \in {"off", "starting", "sweeping"} /\ sweep \subseteq Addr
  /\ fixing \in Addr \cup {None}
  /\ busy \in [Sender -> Addr \cup {None}]
  /\ job \in [Request -> Job] /\ wiped \subseteq Addr
  /\ \A q \in Request : /\ job[q].at # "idle" => job[q].token # None
                        /\ job[q].at \notin {"idle", "state"} => job[q].addr # None

\* A neighbour that is known but not alive is never forgotten, however checks,
\* recovery and requests interleave: it is on the list recover_node works from,
\* or a check is about to put it there, or recover_node or a request is about
\* to declare it alive.  Only one thing takes a dead neighbour off the list for
\* good: a "neighbor del" that was between its two deletes when another request
\* or auto_chk made the address known again and a check found it dead.
DeadIsQueued ==
  \A a \in reg \ (alive \cup wiped) :
    \/ dead[a] # None
    \/ \E s \in Slot : chain[a][s] = "dead"
    \/ fixing = a
    \/ \E q \in Request : job[q].at = "alive" /\ job[q].addr = a

\* A mark always belongs to a check that will take it away: a mark left
\* behind would stop all checks of its address.
MarkHasCheck == \A a \in checking : \E s \in Slot : chain[a][s] # "free"

\* src/readme.md 42: the health check is there for the neighbours.  A neighbour
\* Nextmsg loops over has a state, without which it would be skipped as
\* unreachable for ever, once auto_chk has begun and while no request is being
\* handled.
NeighbourTracked ==
  auto # "starting" /\ (\A q \in Request : job[q] = Idle) => \A e \in loop : e[2] \in reg

\* A neighbour that stays configured and stays up is alive from some time on.
Recovers ==
  \A t \in Token, a \in Addr :
    <>[](<<t, a>> \in loop /\ a \in up) => <>[](a \in alive)

\* A neighbour that stays configured and stays down is found out again and
\* again, however often the operator sets it alive by setting it anew.
Detects ==
  \A t \in Token, a \in Addr :
    <>[](<<t, a>> \in loop /\ a \notin up) => []<>(a \notin alive)
=============================================================================
