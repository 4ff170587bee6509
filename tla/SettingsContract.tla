-------------------------- MODULE SettingsContract --------------------------
(***************************************************************************)
(* What saving settings promises, with no table, snapshot or rollback in   *)
(* sight.  A save reaches the settings in force with all its keys at once, *)
(* or with none of them.  A start of the server changes a setting only if  *)
(* the start before it cut off the save that names it, and then to what    *)
(* that save asked for; saves that were handled at once are excused from   *)
(* this, but only for settings that one of them has left unsettled.        *)
(* Editors implements this specification.                                  *)
(***************************************************************************)
CONSTANTS Client, Key, Value

VARIABLES
    value,     \* the settings in force
    phase,     \* of each client's save: "none", "sent", "working", "ok", "bad" or "lost"
    ask,       \* the keys a save names and what it wants them to be
    loose,     \* settings that a start of the server now would change
    mixed      \* two saves were handled at once since the start

vars == <<value, phase, ask, loose, mixed>>

Nothing == [keys |-> {}, new |-> {}]
Wanted(c) == [f \in Key |-> IF f \in ask[c].keys THEN ask[c].new[f] ELSE value[f]]

Init ==
    /\ value \in [Key -> Value]
    /\ phase = [c \in Client |-> "none"] /\ ask = [c \in Client |-> Nothing]
    /\ loose = {} /\ mixed = FALSE

Move(c, p) == phase' = [phase EXCEPT ![c] = p]

\* Sent, also in place of one that ended without anybody waiting for its answer.
Send(c) ==
    /\ phase[c] \notin {"sent", "working"} /\ Move(c, "sent")
    /\ ask'[c] \in [keys : SUBSET Key, new : [Key -> Value]]
    /\ ask' = [ask EXCEPT ![c] = ask'[c]]
    /\ UNCHANGED <<value, loose, mixed>>

Refuse(c) ==
    /\ phase[c] = "sent" /\ Move(c, "bad")
    /\ UNCHANGED <<value, ask, loose, mixed>>

Begin(c) ==
    /\ phase[c] = "sent" /\ Move(c, "working")
    /\ mixed' = (mixed \/ \E d \in Client : phase[d] = "working")
    /\ UNCHANGED <<value, ask, loose>>

\* A save under way unsettles and settles its own keys only.
OwnKeysMove(c) == loose' \ ask[c].keys = loose \ ask[c].keys

Work(c) ==
    /\ phase[c] = "working" /\ OwnKeysMove(c)
    /\ UNCHANGED <<value, phase, ask, mixed>>

\* It ends in full or without a trace: alone, it leaves nothing unsettled.
End(c, p) ==
    /\ phase[c] = "working" /\ Move(c, p)
    /\ OwnKeysMove(c) /\ (~mixed => loose' = {})
    /\ UNCHANGED <<ask, mixed>>
TakeEffect(c) == End(c, "ok") /\ value' = Wanted(c)
Undo(c) == End(c, "bad") /\ value' = value

Forget(c) ==
    /\ phase[c] \in {"ok", "bad", "lost"} /\ Move(c, "none")
    /\ ask' = [ask EXCEPT ![c] = Nothing]
    /\ UNCHANGED <<value, loose, mixed>>

Restart ==
    /\ phase' = [c \in Client |-> IF phase[c] \in {"sent", "working"} THEN "lost" ELSE phase[c]]
    /\ loose' = {} /\ mixed' = FALSE
    /\ value' \in [Key -> Value]
    /\ \A f \in Key \ loose : value'[f] = value[f]
    /\ \A f \in loose : mixed \/ \E c \in Client : /\ phase[c] = "working" /\ f \in ask[c].keys
                                                   /\ value'[f] = ask[c].new[f]
    /\ UNCHANGED ask

Next ==
    \/ Restart
    \/ \E c \in Client :
           \/ Send(c) \/ Refuse(c) \/ Begin(c) \/ Work(c)
           \/ TakeEffect(c) \/ Undo(c) \/ Forget(c)

Spec == Init /\ [][Next]_vars
=============================================================================
