------------------------------ MODULE EvmCode ------------------------------
(***************************************************************************)
(* What the EVM interpreter (guests-compiled/evm-core/src/interp.rs) and   *)
(* the translator evm2rv read out of a contract's bytes: instructions and  *)
(* their immediates, jump destinations, the static gas schedule; and the   *)
(* words both compute with.                                                *)
(*                                                                         *)
(* Opcodes are the real bytes.  A word has W values instead of 2^256 and a *)
(* limb U32 instead of 2^32; a cell of memory stands for 32 bytes, and     *)
(* lengths and offsets count cells.  Of the arithmetic only ADD, SUB,      *)
(* ADDMOD, EXP, ISZERO and SHL are kept: one opcode of each operand order. *)
(***************************************************************************)
EXTENDS Integers, FiniteSets, Folds, SequencesExt

CONSTANTS W,            \* 2^256
          U32,          \* 2^32
          StackLimit,   \* STACK_LIMIT
          MaxMem,       \* MAX_MEMORY_BYTES, in cells
          MaxReturn,    \* MAX_RETURN_BYTES, in cells
          MaxLogs,      \* MAX_LOGS
          Caller,       \* the caller's address
          Calldata,     \* a sequence of words
          Keccak(_)     \* the digest of a sequence of words

VARIABLES code,         \* the contract's bytes
          jumpdests     \* where it may jump to

ASSUME WordSizes ==
  /\ W \in Nat /\ U32 \in Nat /\ 256 < U32 /\ U32 < W
  /\ MaxMem \in Nat /\ MaxMem < U32 - 1
  /\ MaxReturn \in Nat /\ StackLimit \in Nat /\ MaxLogs \in Nat

FitsU32(v) == v < U32
Low(v) == v % U32
Bool(b) == IF b THEN 1 ELSE 0
Shl(x, n) == IF n < 20 THEN (x * 2^n) % W ELSE 0
Power(b, e) == FoldLeft(LAMBDA r, i : (r * b) % W, 1, [i \in 1..e |-> i])

ByteLen(e) == Cardinality({k \in 0..2 : e >= 256^k})
Expansion(cells) == 3 * cells + (cells * cells) \div 512

-----------------------------------------------------------------------------
\* How many bytes of immediate data follow op.
Pushed(op) == IF op \in \h60..\h7f THEN op - \h5f ELSE 0

\* Past the end of the code an immediate reads as zero.
ByteAt(i) == IF i < Len(code) THEN code[i + 1] ELSE 0
Immediate(pc) ==
  FoldLeft(LAMBDA v, k : (v * 256 + ByteAt(pc + k)) % W, 0,
           [k \in 1..Pushed(code[pc + 1]) |-> k])

\* The JUMPDEST bytes that are instructions, not data of a PUSH.
ScanJumpdests(bytes) ==
  LET from[i \in Nat] ==
        IF i >= Len(bytes) THEN {}
        ELSE (IF bytes[i + 1] = \h5b THEN {i} ELSE {}) \cup from[i + 1 + Pushed(bytes[i + 1])]
  IN  from[0]

StaticGas(op) ==
  CASE op = \h5b -> 1
    [] op \in {\h33, \h36, \h3d, \h50, \h58, \h59, \h5a, \h5f} -> 2
    [] op \in {\h01, \h03, \h15, \h1b, \h35, \h37, \h3e} \cup \h51..\h53 \cup \h60..\h9f -> 3
    [] op \in {\h08, \h56} -> 8
    [] op = \h57 -> 10
    [] op = \h54 -> 2100
    [] OTHER -> 0

-----------------------------------------------------------------------------
(* What a call made public (abi.rs): the root a failed call leaves, and    *)
(* its logs, are dropped; one that halted returns nothing.                 *)

Status(halt) ==
  CASE halt \in {"stop", "return"} -> 1 [] halt = "revert" -> 0 [] OTHER -> 2

PublicOutput(preRoot, o) ==
  LET s == Status(o.halt)
  IN  [status |-> s,
       post |-> IF s = 1 THEN o.tree.root ELSE preRoot,
       ret |-> IF s = 2 THEN <<>> ELSE o.ret,
       logs |-> IF s = 1 THEN o.logs ELSE <<>>]
=============================================================================
