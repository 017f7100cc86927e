--------------------------- MODULE InstructionStreams ---------------------------
(***************************************************************************)
(* What the compiler expects of the bytecode buffer: the main program and  *)
(* every function body are sequences of instructions; whatever is emitted  *)
(* is appended to the sequence that is open; beginning a function opens a  *)
(* new, empty sequence, and ending it reopens the main program.            *)
(***************************************************************************)
EXTENDS Naturals, Sequences

CONSTANTS Main,   \* the name of the main program's sequence
          Ops     \* opcodes

VARIABLES code,   \* from the names of the sequences to the emitted opcodes
          open    \* the sequence that is being extended

Init == /\ code = [s \in {Main} |-> <<>>]
        /\ open = Main

Emit == /\ code' \in {[code EXCEPT ![open] = Append(@, op)] : op \in Ops}
        /\ UNCHANGED open

Begin == /\ open = Main
         /\ open' \notin DOMAIN code
         /\ code' = [s \in DOMAIN code \union {open'} |->
                       IF s = open' THEN <<>> ELSE code[s]]

End == /\ open # Main
       /\ open' = Main
       /\ UNCHANGED code

Next == Emit \/ Begin \/ End

Spec == Init /\ [][Next]_<<code, open>>
=============================================================================
