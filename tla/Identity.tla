------------------------------ MODULE Identity ------------------------------
(***************************************************************************)
(* The private key a server or a relay takes its PeerID from:              *)
(* LoadOrCreateIdentity (P2P/host.go) and the relay's loadIdentity         *)
(* (relay/main.go), over crashes, restarts, an ephemeral file system and   *)
(* several processes started on the same key path.                         *)
(***************************************************************************)
EXTENDS Naturals, FiniteSets

CONSTANTS
  Procs,  \* processes run on this key path, one after the other or together
  Keys,   \* the keys GenerateKeyPair may give
  None

ASSUME NamesAssumption == None \notin Keys /\ "torn" \notin Keys /\ None # "torn"

VARIABLES
  file,    \* None: absent; "torn": truncated and not yet, or never, written
  env,     \* RELAY_PRIVKEY_B64, None when not set (a server has no such variable)
  pc,
  key,     \* per process: the key it has generated or runs with
  used,    \* the keys generated so far
  last,    \* history: the identity handed out last
  lost,    \* history: the file with that identity was wiped, or not readable at
           \* a start, or two starts generated a key at the same time
  cut      \* history: a process ended, or its write failed, inside os.WriteFile

vars == <<file, env, pc, key, used, last, lost, cut>>

Down == {"down", "failed"}
Creating == {"generate", "truncate", "write"}

TypeOK ==
  /\ file \in Keys \cup {None, "torn"}
  /\ env \in Keys \cup {None}
  /\ pc \in [Procs -> Down \cup Creating \cup {"env", "read", "up"}]
  /\ key \in [Procs -> Keys \cup {None}]
  /\ used \in SUBSET Keys /\ last \in Keys \cup {None}
  /\ lost \in BOOLEAN /\ cut \in BOOLEAN
  /\ \A p \in Procs : key[p] # None <=> pc[p] \in {"truncate", "write", "up"}

Init ==
  /\ file = None /\ env = None
  /\ pc = [p \in Procs |-> "down"] /\ key = [p \in Procs |-> None]
  /\ used = {} /\ last = None
  /\ lost = FALSE /\ cut = FALSE

Goto(p, next) == pc' = [pc EXCEPT ![p] = next]

\* The process has its key and prints the addresses made from it.
ComeUp(p, k) ==
  /\ Goto(p, "up")
  /\ key' = [key EXCEPT ![p] = k]
  /\ last' = k

\* Seeded fault: the file is preferred over the environment.
StartFault_FileFirst(p) ==
  /\ pc[p] \in Down
  /\ Goto(p, "read")
  /\ UNCHANGED <<file, env, key, used, last, lost, cut>>

Start(p) ==
  /\ pc[p] \in Down
  /\ Goto(p, IF env = None THEN "read" ELSE "env")
  /\ UNCHANGED <<file, env, key, used, last, lost, cut>>

LoadEnv(p) ==
  /\ pc[p] = "env"
  /\ ComeUp(p, env)
  /\ UNCHANGED <<file, env, used, lost, cut>>

\* os.ReadFile succeeds; a torn file does not unmarshal and main ends with
\* log.Fatal.
ReadKey(p) ==
  /\ pc[p] = "read" /\ file # None
  /\ IF file = "torn"
     THEN Goto(p, "failed") /\ UNCHANGED <<key, last>>
     ELSE ComeUp(p, file)
  /\ UNCHANGED <<file, env, used, lost, cut>>

\* os.ReadFile returns an error: there is no file, or there is one and it
\* cannot be read now.  The code does not tell the two apart.
ReadFails(p) ==
  /\ pc[p] = "read"
  /\ Goto(p, "generate")
  /\ lost' = (lost \/ file # None \/ \E q \in Procs : pc[q] \in Creating)
  /\ UNCHANGED <<file, env, key, used, last, cut>>

Generate(p) ==
  /\ pc[p] = "generate"
  /\ \E k \in Keys \ used : key' = [key EXCEPT ![p] = k] /\ used' = used \cup {k}
  /\ Goto(p, "truncate")
  /\ UNCHANGED <<file, env, last, lost, cut>>

\* Seeded fault: the key is used before it is written.
TruncateFault_UseFirst(p) ==
  /\ pc[p] = "truncate"
  /\ file' = "torn"
  /\ ComeUp(p, key[p])
  /\ UNCHANGED <<env, used, lost, cut>>

\* os.WriteFile opens with O_TRUNC and then writes.
Truncate(p) ==
  /\ pc[p] = "truncate"
  /\ file' = "torn"
  /\ Goto(p, "write")
  /\ UNCHANGED <<env, key, used, last, lost, cut>>

\* Seeded fault: the key is written and thrown away.
WriteKeyFault_Dropped(p) ==
  /\ pc[p] = "write"
  /\ Goto(p, "up") /\ file' = key[p] /\ last' = key[p]
  /\ key' = [key EXCEPT ![p] = None]
  /\ UNCHANGED <<env, used, lost, cut>>

WriteKey(p) ==
  /\ pc[p] = "write"
  /\ file' = key[p]
  /\ ComeUp(p, key[p])
  /\ UNCHANGED <<env, used, lost, cut>>

WriteFails(p) ==
  /\ pc[p] = "write"
  /\ Goto(p, "failed") /\ key' = [key EXCEPT ![p] = None]
  /\ cut' = TRUE
  /\ UNCHANGED <<file, env, used, last, lost>>

\* Interrupted, killed or crashed.
Stop(p) ==
  /\ pc[p] \notin Down
  /\ Goto(p, "down") /\ key' = [key EXCEPT ![p] = None]
  /\ cut' = (cut \/ pc[p] = "write")
  /\ UNCHANGED <<file, env, used, last, lost>>

\* The operator copies the key the relay has printed into its environment, for
\* the starts to come.
SetEnv ==
  /\ env = None /\ \E p \in Procs : pc[p] = "up" /\ key[p] = last
  /\ \A p \in Procs : pc[p] \in Down \cup {"up"}
  /\ env' = last
  /\ UNCHANGED <<file, pc, key, used, last, lost, cut>>

\* The host is redeployed with an empty file system.
Wipe ==
  /\ \A p \in Procs : pc[p] \in Down
  /\ file' = None
  /\ lost' = (lost \/ env = None)
  /\ UNCHANGED <<env, pc, key, used, last, cut>>

Next ==
  \/ \E p \in Procs : \/ Start(p) \/ LoadEnv(p) \/ ReadKey(p) \/ ReadFails(p)
                      \/ Generate(p) \/ Truncate(p)
                      \/ WriteKey(p) \/ WriteFails(p) \/ Stop(p)
  \/ SetEnv \/ Wipe

Spec == Init /\ [][Next]_vars

(***************************************************************************)
(* Properties.                                                             *)
(***************************************************************************)
\* "Without persisting it, the server would get a brand new PeerID ... every
\* time it restarts": across stops and crashes at any point a process that
\* comes up has the identity handed out last, unless its file was lost to all
\* of them.  With RELAY_PRIVKEY_B64 set a wiped file system changes nothing.
IdentityKept ==
  [][\A p \in Procs : /\ pc[p] # "up" /\ pc'[p] = "up"
                      /\ last # None /\ ~lost
                      => key'[p] = last]_vars

\* An identity is on disk, or in the environment, before anyone is told of it.
HandedOutIsStored ==
  \A p \in Procs : pc[p] = "up" /\ ~lost => key[p] \in {file, env}

\* Only a process that ended inside os.WriteFile leaves a key file that later
\* starts fail on.
TornOnlyWhenCut ==
  file = "torn" => cut \/ \E p \in Procs : pc[p] = "write"
=============================================================================
