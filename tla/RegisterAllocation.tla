---------------------------- MODULE RegisterAllocation ----------------------------
(***************************************************************************)
(* What the compiler expects of its symbol table, without any detail of    *)
(* how registers are numbered: blocks open and close like a stack, and a   *)
(* declaration in the innermost block takes a register that no declaration *)
(* still in scope holds.  SymbolTable implements this specification.       *)
(***************************************************************************)
EXTENDS Naturals, Sequences

CONSTANT Registers

VARIABLES frames,     \* frames[i]: the registers of the variables of the i-th
                      \* open scope; frames[1] is the global scope
          exhausted   \* the register numbers have run out

Held == UNION {frames[i] : i \in DOMAIN frames}

Init == frames = << {} >> /\ exhausted = FALSE

Open == /\ frames # <<>>
        /\ frames' = Append(frames, {})

Close == /\ Len(frames) > 1
         /\ frames' = SubSeq(frames, 1, Len(frames) - 1)

\* A fresh register: the innermost block gets one that nobody holds.
Declare == /\ frames # <<>>
           /\ \E r \in Registers \ Held :
                frames' = [frames EXCEPT ![Len(frames)] = @ \union {r}]

Discard == frames' = <<>>

\* Numbers are not infinite.  Once they have run out, for good, nothing is
\* promised about the registers.
RunOut == exhausted' = TRUE

Next == \/ (Open \/ Close \/ Declare \/ Discard) /\ UNCHANGED exhausted
        \/ RunOut

Spec == Init /\ [][Next]_<<frames, exhausted>>
=============================================================================
