-------------------------- MODULE MCMachineCommands --------------------------
(* Small instances of MachineCommands for TLC.                             *)
EXTENDS MachineCommands, TLC

(* A command and its retry under a fresh nonce.                            *)
CommandAndRetry == {[nonce |-> 1, signedAt |-> 0, version |-> 1, body |-> 1],
                    [nonce |-> 2, signedAt |-> 0, version |-> 1, body |-> 1]}
=============================================================================
