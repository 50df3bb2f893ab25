---------------------------- MODULE MCMachineAuth ----------------------------
(* Small instances of MachineAuth for TLC.                                 *)
EXTENDS MachineAuth, TLC

(* A request of the first signer, and one that reuses its nonce after a    *)
(* rotation.                                                               *)
OneNonce == {[nonce |-> 1, signedAt |-> 0, version |-> 1],
             [nonce |-> 1, signedAt |-> 1, version |-> 2]}

Symmetry == Permutations(Handlers)
=============================================================================
