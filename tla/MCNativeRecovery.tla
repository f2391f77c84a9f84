-------------------------- MODULE MCNativeRecovery --------------------------
(* Small instances of NativeRecovery. *)
EXTENDS NativeRecovery

Different == [o \in Ops |-> o]
Same      == [o \in Ops |-> 1]
FirstOnly == {1}
=============================================================================
