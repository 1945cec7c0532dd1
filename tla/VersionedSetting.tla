--------------------------- MODULE VersionedSetting ---------------------------
(***************************************************************************)
(* What a setting promises to those who write it: a value with a version   *)
(* that only grows.  A write names the version it expects, is stored if    *)
(* that is the version, and is refused only if it is not; a refusal names  *)
(* another version that the setting has had (persistence/settings_store.py *)
(* and AppSettingRecord: a stale writer never matches an earlier state).   *)
(***************************************************************************)
EXTENDS Naturals

CONSTANTS Clients, Values, Default, NoWrite

VARIABLES value, version, write, answer

vars == <<value, version, write, answer>>

NoAnswer == [kind |-> "none", version |-> 0]

Init ==
    /\ value = Default
    /\ version = 0
    /\ write = [c \in Clients |-> NoWrite]
    /\ answer = [c \in Clients |-> NoAnswer]

Answers(c, kind, n) ==
    /\ answer' = [answer EXCEPT ![c] = [kind |-> kind, version |-> n]]
    /\ write' = [write EXCEPT ![c] = NoWrite]

\* A client asks for a change, from whatever version it has heard of.
Ask(c) ==
    /\ write[c] = NoWrite
    /\ write'[c] \in [value : Values, expected : Nat]
    /\ \A b \in Clients \ {c} : write'[b] = write[b]
    /\ answer' = [answer EXCEPT ![c] = NoAnswer]
    /\ UNCHANGED <<value, version>>

Store(c) ==
    /\ write[c] # NoWrite
    /\ write[c].expected = version
    /\ value' = write[c].value
    /\ version' = version + 1
    /\ Answers(c, "stored", version + 1)

Refuse(c) ==
    /\ write[c] # NoWrite
    /\ write[c].expected # version
    /\ \E n \in (0 .. version) \ {write[c].expected} : Answers(c, "conflict", n)
    /\ UNCHANGED <<value, version>>

\* A request ends, answered or not: it failed, or its process ended.
End ==
    /\ \E S \in SUBSET Clients :
           /\ write' = [c \in Clients |-> IF c \in S THEN NoWrite ELSE write[c]]
           /\ answer' = [c \in Clients |-> IF c \in S THEN NoAnswer ELSE answer[c]]
    /\ UNCHANGED <<value, version>>

Next ==
    \/ \E c \in Clients : Ask(c) \/ Store(c) \/ Refuse(c)
    \/ End

Spec == Init /\ [][Next]_vars
=============================================================================
