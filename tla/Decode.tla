------------------------------- MODULE Decode -------------------------------
(***************************************************************************)
(* The opcode tables of mips64_codetable.h.  An instruction word is        *)
(* abstracted to its two opcode fields, [major, func, low]: the six bits the*)
(* main loop dispatches on, and the field the second table is indexed by.  *)
(* A row that is not filled in is "none", whatever the code calls it.      *)
(***************************************************************************)
EXTENDS Naturals, Sequences

(* mips_opcodes                                                            *)
MajorOps ==
  [n \in 0..63 |->
   <<"spec", "bcond", "j", "jal", "beq", "bne", "blez", "bgtz", "addi",
     "addiu", "slti", "sltiu", "andi", "ori", "xori", "lui", "cop0",
     "cop1", "cop2", "cop1x", "beql", "bnel", "blezl", "bgtzl", "daddi",
     "daddiu", "ldl", "ldr", "mad", "none", "none", "none", "lb", "lh",
     "lwl", "lw", "lbu", "lhu", "lwr", "lwu", "sb", "sh", "swl", "sw",
     "sdl", "sdr", "swr", "cache", "ll", "lwc1", "lwc2", "pref", "lld",
     "ldc1", "ldc2", "ld", "sc", "swc1", "swc2", "none", "scd", "sdc1",
     "sdc2", "sd">>[n + 1]]

(* mips_spec_opcodes                                                       *)
SpecOps ==
  [n \in 0..63 |->
   <<"sll", "movc", "srl", "sra", "sllv", "none", "srlv", "srav", "jr",
     "jalr", "movz", "movn", "syscall", "break", "none", "sync", "mfhi",
     "mthi", "mflo", "mtlo", "dsllv", "none", "dsrlv", "dsrav", "mult",
     "multu", "div", "divu", "dmult", "dmultu", "ddiv", "ddivu", "add",
     "addu", "sub", "subu", "and", "or", "xor", "nor", "none", "none",
     "slt", "sltu", "dadd", "daddu", "dsub", "dsubu", "tge", "tgeu",
     "tlt", "tltu", "teq", "none", "tne", "none", "dsll", "none", "dsrl",
     "dsra", "dsll32", "none", "dsrl32", "dsra32">>[n + 1]]

(* mips_bcond_opcodes                                                      *)
BcondOps ==
  [n \in 0..31 |->
   <<"bltz", "bgez", "bltzl", "bgezl", "none", "none", "none", "none",
     "tgei", "tgeiu", "tlti", "tltiu", "teqi", "none", "tnei", "none",
     "bltzal", "bgezal", "bltzall", "bgezall", "none", "none", "none",
     "none", "none", "none", "none", "none", "none", "none", "none",
     "none">>[n + 1]]

(* mips_cop0_opcodes                                                       *)
Cop0Ops ==
    [n \in 0..31 |->
        CASE n = 0 -> "mfc0"
          [] n = 1 -> "dmfc0"
          [] n = 2 -> "cfc0"
          [] n = 4 -> "mtc0"
          [] n = 5 -> "dmtc0"
          [] n = 16 -> "tlb"
          [] OTHER -> "none"]

(* mips_mad_opcodes                                                        *)
MadOps ==
    [n \in 0..63 |->
        CASE n = 0 -> "madd"
          [] n = 1 -> "maddu"
          [] n = 2 -> "mul"
          [] n = 4 -> "msub"
          [] n = 5 -> "msubu"
          [] n = 32 -> "clz"
          [] OTHER -> "none"]

(* mips_tlb_opcodes                                                        *)
TlbOps ==
    [n \in 0..63 |->
        CASE n = 1 -> "tlbr"
          [] n = 2 -> "tlbwi"
          [] n = 6 -> "tlbwr"
          [] n = 8 -> "tlbp"
          [] n = 24 -> "eret"
          [] n = 32 -> "wait"
          [] OTHER -> "none"]

-----------------------------------------------------------------------------
(* MAJOR_OP, then spec_op, bcond_op, cop0_op, mad_op and tlb_op: which     *)
(* handler an instruction word reaches.                                    *)
Op(word) ==
    LET first == MajorOps[word.major]
    IN  CASE first = "spec"  -> SpecOps[word.func]
          [] first = "bcond" -> BcondOps[word.func]
          [] first = "mad"   -> MadOps[word.func]
          [] first = "cop0"  -> IF Cop0Ops[word.func] = "tlb"
                                THEN TlbOps[word.low] ELSE Cop0Ops[word.func]
          [] OTHER -> first

(* The handlers that are only unknown_op: the program exits.               *)
DoublewordOps ==
    {"dmfc0", "dmtc0", "dmult", "dmultu", "dsll", "dsllv", "dsrlv", "dsrav",
     "dsub", "dsubu", "dsrl", "dsra", "dsll32", "dsrl32", "dsra32"}
WideOps == {"cop2", "dadd", "daddi", "daddiu", "daddu", "ddiv", "ddivu"}
WideLoads == {"ld", "ldc1", "ldc2", "ldl", "ldr"}
WideStores == {"scd", "sd"}
OtherStores == {"sdc2", "sdl", "sdr"}
OrderedTraps ==
    {"tge", "tgei", "tgeiu", "tgeu", "tlt", "tlti", "tltiu", "tltu"}
Reserved == {"none", "cfc0", "lld", "lwc2", "movc", "swc2", "tnei"}

Exits ==
    DoublewordOps \cup WideOps \cup WideLoads \cup WideStores
        \cup OtherStores \cup OrderedTraps \cup Reserved

(* TARGET_SOFT_FPU: the coprocessor's instructions trap to the guest's     *)
(* emulator of it.  LDC1 is not among them: see WideLoads.                 *)
FpuOps == {"cop1", "cop1x", "lwc1", "sdc1", "swc1"}

(* pref_op, sync_op, wait_op and cache_op change no register and no memory. *)
NoOps == {"pref", "sync", "wait", "cache"}
=============================================================================
