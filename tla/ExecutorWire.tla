---------------------------- MODULE ExecutorWire ----------------------------
(* The executor channel: the byte transports between a browser that owns an  *)
(* agent session (BrowserExecutor) and the server-side bridge that offers    *)
(* the session to participants (ExecutorBridge). Every attempt of the        *)
(* browser to connect is a generation with one transport of its own, so a    *)
(* generation, its id and its transport are one number here. A transport is  *)
(* ordered; when it dies, what was under way may or may not still arrive.    *)
EXTENDS Naturals, Sequences, FiniteSets

CONSTANTS
  MaxGens,      \* how often the browser may connect
  Cmds,         \* commands participants and the page may issue
  Kind,         \* Kind[c] is "prompt", "steer", "config" or "abort"
  MaxVersions,  \* how often the session may change
  MayDispose    \* whether the two ends may be disposed

ASSUME WireAssumption == MaxGens \in Nat /\ MaxVersions \in Nat /\ MayDispose \in BOOLEAN

VARIABLES
  tr,      \* tr[g]: "none" (not opened), "open" or "dead"
  up,      \* up[g]: messages on the way to the bridge
  down,    \* down[g]: messages on the way to the browser
  protocol \* the protocol version of the page's build

wireVars == <<tr, up, down>>

Gens == 1..MaxGens
Abort(c) == Kind[c] = "abort"

ToHost ==
  [type: {"hello", "close", "error"}]
    \cup [type: {"snapshot", "progress"}, v: 0..MaxVersions]
    \cup [type: {"result"}, c: Cmds, ok: BOOLEAN, v: 0..MaxVersions]
    \cup [type: {"rejected"}, scope: {"snapshot", "result"} \cup {"bootstrap"}, c: Cmds \cup {"none"}]

ToExecutor ==
  [type: {"ready", "ack"}]
    \cup [type: {"reject"}, stage: {"hello", "bootstrap", "snapshot"}]
    \cup [type: {"command"}, c: Cmds]

WireTypeOK ==
  /\ tr \in [Gens -> {"none", "open", "dead"}]
  /\ up \in [Gens -> Seq(ToHost)]
  /\ down \in [Gens -> Seq(ToExecutor)]

WireInit ==
  /\ tr = [g \in Gens |-> "none"]
  /\ up = [g \in Gens |-> <<>>]
  /\ down = [g \in Gens |-> <<>>]
  /\ protocol \in {1, 2}

\* Closing a transport, by either end or by the network.
Dead(g) == [tr EXCEPT ![g] = IF @ = "open" THEN "dead" ELSE @]

\* The network loses the connection.
Sever(g) ==
  /\ tr[g] = "open"
  /\ tr' = Dead(g)
  /\ UNCHANGED <<up, down>>
=============================================================================
