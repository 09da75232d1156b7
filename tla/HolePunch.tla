----------------------------- MODULE HolePunch -----------------------------
(***************************************************************************)
(* WatchForDirectUpgrade (P2P/host.go): the goroutines that watch whether  *)
(* the connections to one peer are upgraded from relayed to direct, and    *)
(* what they log.  The client starts one after its Connect; the server's   *)
(* connLogger starts one for every connection that comes up.  When         *)
(* connections come and go is libp2p's business.                           *)
(***************************************************************************)
EXTENDS Naturals

CONSTANTS
  Watchers,       \* the goroutines there may be at a time
  Period,         \* of the ticker
  ClientTimeout,  \* of time.After on the client, and of its context
  ServerTimeout   \* of time.After on the server; its context does not end

ASSUME PeriodsAssumption ==
  Period \in Nat \ {0} /\ ClientTimeout \in Nat \ {0} /\ ServerTimeout \in Nat \ {0}

VARIABLES
  side,       \* which process this is, "client" or "server"
  conns,      \* the kinds of the connections to the peer that are open
  pc,         \* per watcher
  announcedRelayed,
  outcome,    \* per watcher, the last line it logged about the result
  toTick,     \* per watcher, what is left until its ticker fires
  toDeadline, \* until its deadline
  toDone,     \* until its context is done
  unseen      \* history, per watcher: for how long there has been a direct one

watcherVars == <<pc, announcedRelayed, outcome>>
timerVars == <<toTick, toDeadline, toDone>>
vars == <<side, conns, watcherVars, timerVars, unseen>>

Timeout == IF side = "client" THEN ClientTimeout ELSE ServerTimeout

\* 0 stands for context.Background().
CtxTimeout == IF side = "client" THEN ClientTimeout ELSE 0

\* Seeded fault: a relayed connection is preferred to a direct one.
connKindToPeerFault_Order(c) ==
  IF c = {} THEN "NoConn" ELSE IF "Relayed" \in c THEN "Relayed" ELSE "Direct"

connKindToPeer(c) ==
  IF c = {} THEN "NoConn" ELSE IF "Direct" \in c THEN "Direct" ELSE "Relayed"

Outcomes == {"none", "EndHolePunch", "direct", "timed out"}

\* The log of one watcher is in order: a result is its last line, and says
\* that a hole punch ended only where it has said that one started.
LogOK(w) ==
  /\ pc[w] # "returned" => outcome[w] = "none"
  /\ outcome[w] \in {"EndHolePunch", "timed out"} => announcedRelayed[w]
  /\ outcome[w] = "direct" => ~ announcedRelayed[w]

TypeOK ==
  /\ side \in {"client", "server"} /\ conns \in SUBSET {"Relayed", "Direct"}
  /\ pc \in [Watchers -> {"unused", "watching", "returned"}]
  /\ announcedRelayed \in [Watchers -> BOOLEAN]
  /\ outcome \in [Watchers -> Outcomes]
  /\ toTick \in [Watchers -> 0 .. Period]
  /\ toDeadline \in [Watchers -> 0 .. Timeout]
  /\ toDone \in [Watchers -> 0 .. CtxTimeout]
  /\ unseen \in [Watchers -> Nat]
  /\ \A w \in Watchers : LogOK(w)

\* The client is connected, in either way, and starts its only watcher; the
\* server has no connection yet.
Init ==
  /\ side \in {"client", "server"}
  /\ conns \in IF side = "client" THEN {{"Relayed"}, {"Direct"}} ELSE {{}}
  /\ LET only == CHOOSE w \in Watchers : TRUE
     IN  pc = [w \in Watchers |-> IF side = "client" /\ w = only THEN "watching"
                                                               ELSE "unused"]
  /\ announcedRelayed = [w \in Watchers |-> FALSE]
  /\ outcome = [w \in Watchers |-> "none"]
  /\ toTick = [w \in Watchers |-> Period]
  /\ toDeadline = [w \in Watchers |-> Timeout]
  /\ toDone = [w \in Watchers |-> CtxTimeout]
  /\ unseen = [w \in Watchers |-> 0]

(***************************************************************************)
(* Connections.                                                            *)
(***************************************************************************)
\* go func() of WatchForDirectUpgrade.
Start(w) ==
  /\ pc' = [pc EXCEPT ![w] = "watching"]
  /\ announcedRelayed' = [announcedRelayed EXCEPT ![w] = FALSE]
  /\ outcome' = [outcome EXCEPT ![w] = "none"]
  /\ toTick' = [toTick EXCEPT ![w] = Period]
  /\ toDeadline' = [toDeadline EXCEPT ![w] = Timeout]
  /\ toDone' = [toDone EXCEPT ![w] = CtxTimeout]
  /\ unseen' = [unseen EXCEPT ![w] = 0]

\* connLogger.Connected; on the client nothing is notified.
Connected(kind) ==
  /\ kind \notin conns
  /\ conns' = conns \cup {kind}
  /\ IF side = "server"
     THEN \E w \in Watchers : pc[w] # "watching" /\ Start(w)
     ELSE UNCHANGED <<watcherVars, timerVars, unseen>>
  /\ UNCHANGED side

Disconnected(kind) ==
  /\ kind \in conns
  /\ conns' = conns \ {kind}
  /\ unseen' = IF kind = "Direct" THEN [w \in Watchers |-> 0] ELSE unseen
  /\ UNCHANGED <<side, watcherVars, timerVars>>

(***************************************************************************)
(* One watcher: the select picks any case that is ready.                   *)
(***************************************************************************)
Return(w) == pc' = [pc EXCEPT ![w] = "returned"]

CtxDone(w) ==
  /\ pc[w] = "watching" /\ CtxTimeout > 0 /\ toDone[w] = 0
  /\ Return(w)
  /\ UNCHANGED <<side, conns, announcedRelayed, outcome, timerVars, unseen>>

\* Seeded fault: the goroutine goes on polling after its deadline.
DeadlineFault_NoReturn(w) ==
  /\ pc[w] = "watching" /\ toDeadline[w] = 0
  /\ toDeadline' = [toDeadline EXCEPT ![w] = Timeout]
  /\ UNCHANGED <<side, conns, watcherVars, toTick, toDone, unseen>>

\* Seeded fault: the goroutine returns at its deadline without a word.
DeadlineFault_Silent(w) ==
  /\ pc[w] = "watching" /\ toDeadline[w] = 0
  /\ Return(w)
  /\ UNCHANGED <<side, conns, announcedRelayed, outcome, timerVars, unseen>>

\* Seeded fault: the deadline is reported whether or not a relayed connection
\* was ever seen.
DeadlineFault_Unannounced(w) ==
  /\ pc[w] = "watching" /\ toDeadline[w] = 0
  /\ outcome' = IF connKindToPeer(conns) # "Direct"
                THEN [outcome EXCEPT ![w] = "timed out"] ELSE outcome
  /\ Return(w)
  /\ UNCHANGED <<side, conns, announcedRelayed, timerVars, unseen>>

Deadline(w) ==
  /\ pc[w] = "watching" /\ toDeadline[w] = 0
  /\ outcome' = IF announcedRelayed[w] /\ connKindToPeer(conns) # "Direct"
                THEN [outcome EXCEPT ![w] = "timed out"] ELSE outcome
  /\ Return(w)
  /\ UNCHANGED <<side, conns, announcedRelayed, timerVars, unseen>>

Tick(w) ==
  /\ pc[w] = "watching" /\ toTick[w] = 0
  /\ LET kind == connKindToPeer(conns)
     IN  /\ announcedRelayed' = [announcedRelayed EXCEPT ![w] = @ \/ kind = "Relayed"]
         /\ outcome' = IF kind = "Direct"
                       THEN [outcome EXCEPT ![w] = IF announcedRelayed[w] THEN "EndHolePunch"
                                                                         ELSE "direct"]
                       ELSE outcome
         /\ IF kind = "Direct" THEN Return(w) ELSE UNCHANGED pc
  /\ toTick' = [toTick EXCEPT ![w] = Period]
  /\ UNCHANGED <<side, conns, toDeadline, toDone, unseen>>

Select(w) == CtxDone(w) \/ Deadline(w) \/ Tick(w)

(***************************************************************************)
(* Time.  A watcher takes a case that is ready before more time passes.    *)
(***************************************************************************)
Less(f) == [w \in Watchers |-> IF pc[w] = "watching" /\ f[w] > 0 THEN f[w] - 1 ELSE f[w]]

Waiting(w) == toTick[w] > 0 /\ toDeadline[w] > 0 /\ (CtxTimeout > 0 => toDone[w] > 0)

TimePasses ==
  /\ \E w \in Watchers : pc[w] = "watching"
  /\ \A w \in Watchers : pc[w] = "watching" => Waiting(w)
  /\ toTick' = Less(toTick) /\ toDeadline' = Less(toDeadline) /\ toDone' = Less(toDone)
  /\ unseen' = [w \in Watchers |-> IF pc[w] = "watching" /\ "Direct" \in conns
                                   THEN unseen[w] + 1 ELSE unseen[w]]
  /\ UNCHANGED <<side, conns, watcherVars>>

Next ==
  \/ \E w \in Watchers : Select(w)
  \/ \E kind \in {"Relayed", "Direct"} : Connected(kind) \/ Disconnected(kind)
  \/ TimePasses

Spec == Init /\ [][Next]_vars

FairSpec == Spec /\ WF_vars(TimePasses) /\ \A w \in Watchers : WF_vars(Select(w))

(***************************************************************************)
(* Properties.                                                             *)
(***************************************************************************)
\* "logs the moment a relayed connection is joined (or replaced) by a direct
\* one" (host.go:227): a watcher that is still watching has not overlooked a
\* direct connection for longer than one period of its ticker.
UpgradeSeenInTime ==
  \A w \in Watchers : pc[w] = "watching" => unseen[w] <= Period

\* "safe to call and forget" (host.go:231): every watcher returns, whatever
\* the connections do.
WatchersReturn == \A w \in Watchers : pc[w] = "watching" ~> pc[w] = "returned"

\* "gives up (logging that hole punching didn't complete) after timeout"
\* (host.go:229).  A watcher that has logged StartHolePunch returns without
\* another word in two cases only: its context ended, or a direct connection
\* came up since its last tick, which the deadline sees and does not log.
SilentOnlyWhenRaced ==
  [][\A w \in Watchers :
       /\ pc[w] = "watching" /\ pc'[w] = "returned"
       /\ announcedRelayed[w] /\ outcome'[w] = "none"
       => \/ CtxTimeout > 0 /\ toDone[w] = 0
          \/ "Direct" \in conns /\ unseen[w] <= Period]_vars
=============================================================================
