------------------------------- MODULE Admin -------------------------------
(***************************************************************************)
(* What the operator's interface (apiHandler in server.go) changes and how *)
(* it survives a restart: the deny list, which is copied on every write    *)
(* and read without a lock; the neighbours in token_Map; and saveTask,     *)
(* which writes both to files every twenty minutes while they change.      *)
(*                                                                         *)
(* "neighbor set" and "neighbor del" go on to send.Append and send.Remove, *)
(* which Health has: nothing here depends on nextloop.  A neighbour may be *)
(* set without a URL, and set anew with another.                           *)
(*                                                                         *)
(* Abstracted: the reduction of a domain to its suffix, the rates of       *)
(* neighbours, failing disk writes, Range over token_Map (one step here).  *)
(* The operator never names the local token.                               *)
(***************************************************************************)
EXTENDS Integers

CONSTANTS
  Suffix,  \* domain suffixes that may be banned
  Token,   \* tokens of neighbours
  Local,   \* Skip_token, kept in token_Map and never saved
  Url,     \* URLs of neighbours, the empty one among them
  Banner,  \* handlers of "ban" and "unban" that may run at once
  None,    \* no job, no holder, no neighbour, or a file that does not parse
  MaxCrash \* bound on the number of restarts

ASSUME AdminAssumption ==
  /\ Local \notin Token
  /\ None \notin Banner
  /\ "" \in Url
  /\ MaxCrash \in Nat

VARIABLES
  deny,      \* deny_Map, which readers load without a lock
  lock,      \* the holder of deny_lock
  bpc, bjob, \* where each banner is, and the suffix and wish it works on
  copy,      \* copy[b]: the new map b has built
  tokens,    \* token_Map: the URL of each token, None for one not in the map
  spc,       \* where saveTask is
  snap,      \* the neighbours saveTask is about to write
  denyFile,  \* the saved deny list, or None
  tokenFile, \* the saved neighbours, or None
  banned,    \* history: suffixes whose ban was answered and not lifted since
  crashes    \* restarts so far

denying == <<deny, lock, bpc, bjob, copy, banned>>
saving == <<spc, snap, denyFile, tokenFile>>
vars == <<denying, tokens, saving, crashes>>

Job(S) == [what : S, add : BOOLEAN]

\* What changeMap makes of a set.
Changed(S, j) == IF j.add THEN S \cup {j.what} ELSE S \ {j.what}

\* main: what loadList and loadToken make of the files.  Without a readable
\* token file even the local token is unknown.
Denied(f) == IF f = None THEN {} ELSE f
Accepted(f) == [t \in Token \cup {Local} |->
                  IF f = None THEN None ELSE IF t = Local THEN "" ELSE f[t]]

Init ==
  /\ denyFile \in {None, {}}
  /\ tokenFile \in {None} \cup [Token -> Url \cup {None}]
  /\ deny = Denied(denyFile)
  /\ tokens = Accepted(tokenFile)
  /\ lock = None
  /\ bpc = [b \in Banner |-> "idle"] /\ bjob = [b \in Banner |-> None]
  /\ copy = [b \in Banner |-> {}]
  /\ spc = "sleep" /\ snap = None
  /\ banned = {} /\ crashes = 0

-----------------------------------------------------------------------------
(* ban and unban.                                                          *)

BStep(b, from, to) == bpc[b] = from /\ bpc' = [bpc EXCEPT ![b] = to]

\* A ban goes for the lock; an unban first looks, without the lock, whether
\* there is anything to lift.
BanBegin(b, x) ==
  /\ BStep(b, "idle", "lock")
  /\ bjob' = [bjob EXCEPT ![b] = [what |-> x, add |-> TRUE]]
  /\ UNCHANGED <<deny, lock, copy, banned, tokens, saving, crashes>>

UnbanBegin(b, x) ==
  /\ x \in deny
  /\ BStep(b, "idle", "lock")
  /\ bjob' = [bjob EXCEPT ![b] = [what |-> x, add |-> FALSE]]
  /\ banned' = banned \ {x}
  /\ UNCHANGED <<deny, lock, copy, tokens, saving, crashes>>

\* Mutant: the map is copied without waiting for the lock.
UnlockedCopy(b) ==
  /\ BStep(b, "lock", "assign")
  /\ lock' = b
  /\ copy' = [copy EXCEPT ![b] = Changed(deny, bjob[b])]
  /\ UNCHANGED <<deny, bjob, banned, tokens, saving, crashes>>

\* deny_lock.Lock() and changeMap: a copy of the map with the suffix added or
\* deleted.
BCopy(b) ==
  /\ lock = None
  /\ BStep(b, "lock", "assign")
  /\ lock' = b
  /\ copy' = [copy EXCEPT ![b] = Changed(deny, bjob[b])]
  /\ UNCHANGED <<deny, bjob, banned, tokens, saving, crashes>>

\* The copy becomes the map, deny_lock.Unlock() and the answer.  A ban counts
\* from its answer, unless an unban of the same suffix is under way.
BAssign(b) ==
  LET j == bjob[b]
      lifting == \E c \in Banner : bjob[c] = [what |-> j.what, add |-> FALSE] IN
  /\ BStep(b, "assign", "idle")
  /\ deny' = copy[b]
  /\ lock' = None
  /\ bjob' = [bjob EXCEPT ![b] = None]
  /\ copy' = [copy EXCEPT ![b] = {}]
  /\ banned' = IF j.add /\ ~lifting THEN banned \cup {j.what} ELSE banned
  /\ UNCHANGED <<tokens, saving, crashes>>

-----------------------------------------------------------------------------
(* neighbor set and neighbor del: one access to token_Map each, a sync.Map *)

SetNeighbour(t, u) ==
  /\ tokens' = [tokens EXCEPT ![t] = u]
  /\ UNCHANGED <<denying, saving, crashes>>

DelNeighbour(t) ==
  /\ tokens' = [tokens EXCEPT ![t] = None]
  /\ UNCHANGED <<denying, saving, crashes>>

-----------------------------------------------------------------------------
(* saveTask and restarts.                                                  *)

SStep(from, to) == spc = from /\ spc' = to

\* saveList empties the file before it asks for the lock...
STruncDeny ==
  /\ SStep("sleep", "encode")
  /\ denyFile' = None
  /\ UNCHANGED <<denying, tokens, snap, tokenFile, crashes>>

\* Mutant: another, empty map is encoded.
EncodeEmpty ==
  /\ lock = None
  /\ SStep("encode", "tokens")
  /\ denyFile' = {}
  /\ UNCHANGED <<denying, tokens, snap, tokenFile, crashes>>

\* ... and encodes the map under the lock.
SEncode ==
  /\ lock = None
  /\ SStep("encode", "tokens")
  /\ denyFile' = deny
  /\ UNCHANGED <<denying, tokens, snap, tokenFile, crashes>>

\* Mutant: a neighbour without a URL is taken for the local token.
SaveReachable ==
  /\ SStep("tokens", "write")
  /\ snap' = [t \in Token |-> IF tokens[t] = "" THEN None ELSE tokens[t]]
  /\ tokenFile' = None
  /\ UNCHANGED <<denying, tokens, denyFile, crashes>>

\* Mutant: the local token is saved with the others.
SaveLocal ==
  /\ SStep("tokens", "write")
  /\ snap' = tokens
  /\ tokenFile' = None
  /\ UNCHANGED <<denying, tokens, denyFile, crashes>>

\* saveToken ranges over token_Map, leaves the local token out, and
\* os.WriteFile empties the file...
STruncToken ==
  /\ SStep("tokens", "write")
  /\ snap' = [t \in Token |-> tokens[t]]
  /\ tokenFile' = None
  /\ UNCHANGED <<denying, tokens, denyFile, crashes>>

\* ... before it writes it.
SWriteToken ==
  /\ SStep("write", "sleep")
  /\ tokenFile' = snap
  /\ snap' = None
  /\ UNCHANGED <<denying, tokens, denyFile, crashes>>

\* The process ends, by a signal or a crash (main saves nothing), and a new
\* one loads the files.
Restart ==
  /\ crashes < MaxCrash
  /\ crashes' = crashes + 1
  /\ UNCHANGED <<denyFile, tokenFile>>
  /\ deny' = Denied(denyFile)
  /\ tokens' = Accepted(tokenFile)
  /\ lock' = None
  /\ bpc' = [b \in Banner |-> "idle"] /\ bjob' = [b \in Banner |-> None]
  /\ copy' = [b \in Banner |-> {}]
  /\ spc' = "sleep" /\ snap' = None
  /\ banned' = {}

Ban(b) == BCopy(b) \/ BAssign(b)
Keep == \E t \in Token : DelNeighbour(t) \/ \E u \in Url : SetNeighbour(t, u)
Save == STruncDeny \/ SEncode \/ STruncToken \/ SWriteToken

Next == \/ \E b \in Banner : Ban(b) \/ \E x \in Suffix : BanBegin(b, x) \/ UnbanBegin(b, x)
        \/ Keep \/ Save \/ Restart

Spec == Init /\ [][Next]_vars

\* Handlers run to their end, and sync.Mutex lets every waiter in eventually:
\* after a millisecond without the lock a waiter is handed it next.
FairSpec == /\ Spec
            /\ \A b \in Banner : WF_vars(BAssign(b)) /\ SF_vars(BCopy(b))
            /\ WF_vars(Save) /\ SF_vars(SEncode)

-----------------------------------------------------------------------------
(* Properties.                                                             *)

\* The variables have their types (the one type invariant of this module).
TypeOK ==
  /\ deny \subseteq Suffix /\ banned \subseteq Suffix
  /\ lock \in Banner \cup {None}
  /\ bpc \in [Banner -> {"idle", "lock", "assign"}]
  /\ bjob \in [Banner -> Job(Suffix) \cup {None}]
  /\ copy \in [Banner -> SUBSET Suffix]
  /\ tokens \in [Token \cup {Local} -> Url \cup {None}]
  /\ spc \in {"sleep", "encode", "tokens", "write"}
  /\ snap \in {None} \cup [Token -> Url \cup {None}]
  /\ denyFile \in {None} \cup SUBSET Suffix
  /\ tokenFile \in {None} \cup [Token -> Url \cup {None}]
  /\ crashes \in 0..MaxCrash

\* A ban the operator was told of stays until somebody asks to lift it (or the
\* process ends), whatever other bans and unbans run at the same time, though
\* each writes back a whole copy of the map.
NoLostBan == banned \subseteq deny

\* A suffix that stays banned is saved again and again.
BansSaved == \A x \in Suffix : <>[](x \in deny) => []<>(denyFile # None /\ x \in denyFile)

\* So is a neighbour that stays configured, with its URL or without one, and a
\* deleted one is taken out of the file.
NeighboursSaved ==
  \A t \in Token, u \in Url \cup {None} :
    <>[](tokens[t] = u) => []<>(tokenFile # None /\ tokenFile[t] = u)

\* The whole copies and the lock behave as a list that each ban and unban
\* changes in one step, and each file ever readable as one state of it.
ListOfDenied == INSTANCE DenyList WITH list <- deny, asked <- bjob, file <- denyFile
ImplementsDenyList == ListOfDenied!Spec
=============================================================================
