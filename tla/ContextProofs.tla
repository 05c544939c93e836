--------------------------- MODULE ContextProofs ---------------------------
(***************************************************************************)
(* Proofs about Context, for any number of registers and tasks.            *)
(***************************************************************************)
EXTENDS Context, TLAPS

USE ContextAssumption

-----------------------------------------------------------------------------
(* Every register but pc has exactly one place in the order of pushes.     *)
Pos(r) == CHOOSE i \in 1..N : GPR[i] = r

LEMMA NNat == N \in Nat /\ N >= 2 /\ DOMAIN GPR = 1..N
  BY DEF N

LEMMA GPRRegister == \A i \in 1..N : GPR[i] \in Registers /\ GPR[i] # "pc"
  BY NNat DEF Registers, Range

LEMMA RaxRegister == "rax" \in Registers /\ "pc" \in Registers /\ "rax" # "pc"
  <1>1. 1 \in 1..N
    BY NNat
  <1> QED
    BY <1>1, GPRRegister DEF Registers

LEMMA PosIndex ==
  ASSUME NEW r \in Registers, r # "pc"
  PROVE  Pos(r) \in 1..N /\ GPR[Pos(r)] = r
  <1>1. \E i \in 1..N : GPR[i] = r
    BY NNat DEF Registers, Range
  <1> QED
    BY <1>1 DEF Pos

LEMMA PosRax == Pos("rax") = 1
  <1>1. 1 \in 1..N
    BY NNat
  <1>2. Pos("rax") \in 1..N /\ GPR[Pos("rax")] = GPR[1]
    BY PosIndex, RaxRegister
  <1> QED
    BY <1>1, <1>2

(* What sys_yield() loads, by register.                                    *)
LEMMA YieldValue ==
  ASSUME NEW ks
  PROVE  /\ sys_yield(ks) = [r \in Registers |-> sys_yield(ks)[r]]
         /\ sys_yield(ks)["pc"] = ks[N]
         /\ \A r \in Registers : r # "pc" => sys_yield(ks)[r] = ks[N - Pos(r)]
  BY RaxRegister DEF sys_yield, Pos

LEMMA YieldType ==
  ASSUME NEW ks \in [0..N -> Val]
  PROVE  sys_yield(ks) \in [Registers -> Val]
  <1>1. ASSUME NEW r \in Registers PROVE sys_yield(ks)[r] \in Val
    <2>1. CASE r = "pc"
      BY <2>1, YieldValue, NNat
    <2>2. CASE r # "pc"
      <3>1. N - Pos(r) \in 0..N
        BY <2>2, PosIndex, NNat
      <3>2. sys_yield(ks)[r] = ks[N - Pos(r)]
        BY <2>2, YieldValue, Zenon
      <3> QED
        BY <3>1, <3>2
    <2> QED
      BY <2>1, <2>2
  <1> QED
    BY <1>1, YieldValue

(* A task that the timer interrupts in user mode gets its registers back.  *)
LEMMA PushThenYield ==
  ASSUME NEW s \in [Registers -> Val]
  PROVE  /\ push_registers(s) \in [0..N -> Val]
         /\ sys_yield(push_registers(s)) = s
  <1>1. push_registers(s) \in [0..N -> Val]
    <2>1. ASSUME NEW k \in 0..N, k # N PROVE N - k \in 1..N
      BY <2>1, NNat
    <2> QED
      BY <2>1, GPRRegister, RaxRegister DEF push_registers
  <1>2. ASSUME NEW r \in Registers PROVE sys_yield(push_registers(s))[r] = s[r]
    <2>1. CASE r = "pc"
      <3>1. N \in 0..N
        BY NNat
      <3> QED
        BY <2>1, <3>1, YieldValue DEF push_registers
    <2>2. CASE r # "pc"
      <3>1. Pos(r) \in 1..N /\ GPR[Pos(r)] = r
        BY <2>2, PosIndex
      <3>2. N - Pos(r) \in 0..N /\ N - Pos(r) # N /\ N - (N - Pos(r)) = Pos(r)
        BY <3>1, NNat
      <3>3. push_registers(s)[N - Pos(r)] = s[GPR[N - (N - Pos(r))]]
        BY <3>2 DEF push_registers
      <3> QED
        BY <2>2, <3>1, <3>2, <3>3, YieldValue
    <2> QED
      BY <2>1, <2>2
  <1> QED
    BY <1>1, <1>2, YieldValue, YieldType

LEMMA SyscallFrame ==
  ASSUME NEW s \in [Registers -> Val]
  PROVE  /\ handler_idt128(s) \in [0..N -> Val]
         /\ handler_idt128(s)[N] = s["pc"]
         /\ \A k \in 1..(N - 1) : handler_idt128(s)[k] = s[GPR[N - k + 1]]
  <1>1. ASSUME NEW k \in 0..N, k # N, k # 0 PROVE N - k + 1 \in 1..N
    BY <1>1, NNat
  <1>2. N \in 0..N /\ (\A k \in 1..(N - 1) : k \in 0..N /\ k # N /\ k # 0)
    BY NNat
  <1> QED
    BY <1>1, <1>2, GPRRegister, RaxRegister DEF handler_idt128

(* What sys_yield() makes of a system call's frame, whatever rax was to    *)
(* become: each register but the last gets the value of the next one.      *)
Shifted(ks, d) == \A i \in 1..(N - 1) : sys_yield(ks)[GPR[i]] = d[GPR[i + 1]]

LEMMA SyscallShifts ==
  ASSUME NEW s \in [Registers -> Val], NEW res
  PROVE  Shifted(handler_idt128(s), [s EXCEPT !["rax"] = res])
  <1> SUFFICES ASSUME NEW i \in 1..(N - 1)
               PROVE  sys_yield(handler_idt128(s))[GPR[i]] = [s EXCEPT !["rax"] = res][GPR[i + 1]]
    BY DEF Shifted
  <1>1. /\ i \in 1..N /\ i + 1 \in 1..N /\ i + 1 # 1
        /\ N - i \in 1..(N - 1) /\ N - (N - i) + 1 = i + 1 /\ 1 \in 1..N
    BY NNat
  <1>2. GPR[i] \in Registers /\ GPR[i] # "pc" /\ GPR[i + 1] \in Registers
    BY <1>1, GPRRegister
  <1>3. Pos(GPR[i]) = i
    BY <1>1, <1>2, PosIndex
  <1>4. sys_yield(handler_idt128(s))[GPR[i]] = handler_idt128(s)[N - i]
    BY <1>2, <1>3, YieldValue
  <1>5. handler_idt128(s)[N - i] = s[GPR[N - (N - i) + 1]]
    BY <1>1, SyscallFrame
  <1>6. GPR[i + 1] # "rax"
    BY <1>1
  <1> QED
    BY <1>1, <1>2, <1>4, <1>5, <1>6

(* A forked child gets its parent's registers, with 0 in rax: the shift    *)
(* that sys_fork() applies to the copied stack makes up for the difference *)
(* between the two layouts.                                                *)
LEMMA ForkFrame ==
  ASSUME NEW s \in [Registers -> Val]
  PROVE  /\ fork_frame(handler_idt128(s)) \in [0..N -> Val]
         /\ sys_yield(fork_frame(handler_idt128(s))) = [s EXCEPT !["rax"] = 0]
  <1> DEFINE h == handler_idt128(s)
             fr == fork_frame(h)
  <1>1. /\ h \in [0..N -> Val] /\ h[N] = s["pc"]
        /\ \A k \in 1..(N - 1) : h[k] = s[GPR[N - k + 1]]
    BY SyscallFrame
  <1> HIDE DEF h
  <1>2. /\ N \in 0..N /\ N - 1 \in 0..N /\ N - 1 # N
        /\ \A k \in 0..N : k # N => k + 1 \in 0..N
    BY NNat
  <1>3. fr \in [0..N -> Val] /\ fr[N] = h[N] /\ fr[N - 1] = 0
    BY <1>1, <1>2 DEF fork_frame
  <1>4. \A k \in 0..(N - 2) : fr[k] = h[k + 1]
    <2>1. \A k \in 0..(N - 2) : k \in 0..N /\ k # N /\ k # N - 1
      BY NNat
    <2> QED
      BY <2>1 DEF fork_frame
  <1>5. ASSUME NEW r \in Registers PROVE sys_yield(fr)[r] = [s EXCEPT !["rax"] = 0][r]
    <2>1. CASE r = "pc"
      BY <2>1, <1>1, <1>3, YieldValue, RaxRegister, Zenon
    <2>2. CASE r = "rax"
      <3>1. sys_yield(fr)["rax"] = fr[N - Pos("rax")]
        BY YieldValue, RaxRegister
      <3> QED
        BY <2>2, <3>1, <1>3, PosRax, RaxRegister
    <2>3. CASE r # "pc" /\ r # "rax"
      <3>1. Pos(r) \in 1..N /\ GPR[Pos(r)] = r
        BY <2>3, PosIndex
      <3>2. Pos(r) # 1
        BY <3>1, <2>3
      <3> DEFINE k == N - Pos(r)
      <3>3. k \in 0..(N - 2) /\ k + 1 \in 1..(N - 1) /\ N - (k + 1) + 1 = Pos(r)
        BY <3>1, <3>2, NNat
      <3>4. fr[k] = h[k + 1]
        BY <3>3, <1>4
      <3>5. h[k + 1] = s[GPR[N - (k + 1) + 1]]
        BY <3>3, <1>1
      <3>6. fr[k] = s[r]
        BY <3>1, <3>3, <3>4, <3>5
      <3> QED
        BY <2>3, <3>6, YieldValue
    <2> QED
      BY <2>1, <2>2, <2>3
  <1>6. fr \in [0..N -> Val] /\ sys_yield(fr) = [s EXCEPT !["rax"] = 0]
    BY <1>3, <1>5, YieldValue
  <1> QED
    BY <1>6 DEF h

(* A new program finds what create_process() prepared.                     *)
LEMMA NewFrame ==
  /\ new_frame \in [0..N -> Val] /\ NewState \in [Registers -> Val]
  /\ sys_yield(new_frame) = NewState
  <1>1. new_frame \in [0..N -> Val] /\ NewState \in [Registers -> Val]
    BY DEF new_frame, NewState
  <1>2. ASSUME NEW r \in Registers PROVE sys_yield(new_frame)[r] = NewState[r]
    <2>1. CASE r = "pc"
      <3>1. N \in 0..N
        BY NNat
      <3> QED
        BY <2>1, <3>1, YieldValue, RaxRegister DEF new_frame, NewState
    <2>2. CASE r # "pc"
      <3>1. N - Pos(r) \in 0..N /\ N - Pos(r) # N
        BY <2>2, PosIndex, NNat
      <3>2. sys_yield(new_frame)[r] = new_frame[N - Pos(r)]
        BY <2>2, YieldValue
      <3> QED
        BY <2>2, <3>1, <3>2 DEF new_frame, NewState
    <2> QED
      BY <2>1, <2>2
  <1> QED
    BY <1>1, <1>2, YieldValue, YieldType

-----------------------------------------------------------------------------
(* While a task is inside sys_read() its stack is the one it entered with. *)
InReadFrame == inread => kstack[cur] = handler_idt128(u)

(* However a task left the CPU, it resumes in user mode at the instruction *)
(* it had reached, on its own user stack.                                  *)
ResumesInPlace ==
  \A t \in alive \ {cur} : sys_yield(kstack[t])["pc"] = due[t]["pc"]

IInv == TypeOK /\ RegistersRestored /\ ResumesInPlace /\ ShiftedByOne /\ InReadFrame

(* The parts of the invariant about the tasks that wait, one by one.       *)
Restored(t, ks, d, how) ==
  /\ how \in {"new", "preempted", "forked"} => sys_yield(ks) = d
  /\ sys_yield(ks)["pc"] = d["pc"]
  /\ how \in {"blocked", "in read"} => Shifted(ks, d)

LEMMA WaitingForm ==
  RegistersRestored /\ ResumesInPlace /\ ShiftedByOne
    <=> \A t \in alive \ {cur} : Restored(t, kstack[t], due[t], left[t])
  BY DEF RegistersRestored, ResumesInPlace, ShiftedByOne, Waiting, Restored, Shifted

LEMMA InitIInv == Init => IInv
  <1> SUFFICES ASSUME Init PROVE IInv
    OBVIOUS
  <1>1. TypeOK
    BY NewFrame, Zenon DEF Init, TypeOK
  <1>2. alive \ {cur} = {} /\ ~inread
    BY DEF Init
  <1> QED
    BY <1>1, <1>2 DEF IInv, RegistersRestored, ResumesInPlace, ShiftedByOne, InReadFrame, Waiting

(* What is left to show for a step: the types, and that every task that    *)
(* waits after it was waiting before, unchanged, or has a proper frame.    *)
LEMMA StepIInv ==
  ASSUME IInv, TypeOK', InReadFrame',
         \A t \in alive' \ {cur'} :
           \/ /\ t \in alive \ {cur}
              /\ kstack'[t] = kstack[t] /\ due'[t] = due[t] /\ left'[t] = left[t]
           \/ Restored(t, kstack'[t], due'[t], left'[t])
  PROVE  IInv'
  <1>1. \A t \in alive \ {cur} : Restored(t, kstack[t], due[t], left[t])
    BY WaitingForm DEF IInv
  <1>2. \A t \in alive' \ {cur'} : Restored(t, kstack'[t], due'[t], left'[t])
    BY <1>1
  <1>3. RegistersRestored' /\ ResumesInPlace' /\ ShiftedByOne'
    BY <1>2 DEF RegistersRestored, ResumesInPlace, ShiftedByOne, Waiting, Restored, Shifted
  <1> QED
    BY <1>3 DEF IInv

LEMMA UserStep ==
  ASSUME IInv, NEW s \in UserState, user_code(s)
  PROVE  IInv'
  <1>1. TypeOK'
    BY DEF IInv, TypeOK, user_code
  <1>2. InReadFrame'
    BY DEF InReadFrame, user_code, UserMode
  <1> QED
    BY <1>1, <1>2, StepIInv DEF user_code

LEMMA TimerUserStep ==
  ASSUME IInv, NEW t \in alive, timer_user(t)
  PROVE  IInv'
  <1>1. u \in [Registers -> Val] /\ cur \in Task /\ t \in Task
    BY DEF IInv, TypeOK
  <1>2. push_registers(u) \in [0..N -> Val] /\ sys_yield(push_registers(u)) = u
    BY <1>1, PushThenYield
  <1>3. kstack' = [kstack EXCEPT ![cur] = push_registers(u)]
    BY DEF timer_user, SwitchTo
  <1>4. kstack' \in [Task -> [0..N -> Val]]
    BY <1>2, <1>3 DEF IInv, TypeOK
  <1>5. u' \in [Registers -> Val]
    BY <1>1, <1>3, <1>4, YieldType DEF timer_user, SwitchTo
  <1>6. due' = [due EXCEPT ![cur] = u] /\ left' = [left EXCEPT ![cur] = "preempted"]
    BY DEF timer_user, Leaves
  <1>7. TypeOK'
    BY <1>1, <1>4, <1>5, <1>6 DEF IInv, TypeOK, timer_user, SwitchTo
  <1>8. Restored(cur, kstack'[cur], due'[cur], left'[cur])
    BY <1>1, <1>2, <1>3, <1>6 DEF Restored, IInv, TypeOK
  <1>9. \A x \in Task : x # cur => /\ kstack'[x] = kstack[x] /\ due'[x] = due[x]
                                  /\ left'[x] = left[x]
    BY <1>3, <1>6 DEF IInv, TypeOK
  <1>10. InReadFrame' /\ alive' = alive /\ alive \subseteq Task
    BY DEF InReadFrame, timer_user, SwitchTo, IInv, TypeOK
  <1> QED
    BY <1>7, <1>8, <1>9, <1>10, StepIInv

LEMMA TimerInReadStep ==
  ASSUME IInv, NEW t \in alive, NEW res \in Results, timer_in_read(t, res)
  PROVE  IInv'
  <1>1. u \in [Registers -> Val] /\ cur \in Task /\ t \in Task /\ res \in Val
    BY DEF IInv, TypeOK
  <1>2. kstack' = kstack /\ u' = sys_yield(kstack[t])
    BY DEF timer_in_read, SwitchTo
  <1>3. u' \in [Registers -> Val]
    BY <1>1, <1>2, YieldType DEF IInv, TypeOK
  <1> DEFINE d == [u EXCEPT !["rax"] = res]
  <1>4. d \in [Registers -> Val] /\ d["pc"] = u["pc"]
    BY <1>1, RaxRegister
  <1>0. Shifted(handler_idt128(u), d)
    BY <1>1, SyscallShifts, Zenon
  <1> HIDE DEF d
  <1>5. due' = [due EXCEPT ![cur] = d] /\ left' = [left EXCEPT ![cur] = "in read"]
    BY DEF timer_in_read, Leaves, d
  <1>6. TypeOK'
    BY <1>1, <1>2, <1>3, <1>4, <1>5 DEF IInv, TypeOK, timer_in_read, SwitchTo
  <1>7. sys_yield(kstack[cur])["pc"] = u["pc"] /\ Shifted(kstack[cur], d)
    <2>1. kstack[cur] = handler_idt128(u)
      BY DEF timer_in_read, IInv, InReadFrame
    <2>2. kstack[cur][N] = u["pc"]
      BY <1>1, <2>1, SyscallFrame
    <2> QED
      BY <1>0, <2>1, <2>2, YieldValue
  <1>8. due'[cur] = d /\ left'[cur] = "in read"
    BY <1>1, <1>5 DEF IInv, TypeOK
  <1>9. Restored(cur, kstack'[cur], due'[cur], left'[cur])
    BY <1>2, <1>4, <1>7, <1>8 DEF Restored
  <1>10. \A x \in Task : x # cur => /\ kstack'[x] = kstack[x] /\ due'[x] = due[x]
                                  /\ left'[x] = left[x]
    BY <1>2, <1>5 DEF IInv, TypeOK
  <1>11. InReadFrame' /\ alive' = alive /\ alive \subseteq Task
    BY DEF InReadFrame, timer_in_read, SwitchTo, IInv, TypeOK
  <1> QED
    BY <1>6, <1>9, <1>10, <1>11, StepIInv

(* Entering a system call writes the caller's own stack only.              *)
LEMMA SyscallEntry ==
  ASSUME IInv
  PROVE  /\ cur \in Task /\ alive \subseteq Task
         /\ u \in [Registers -> Val]
         /\ handler_idt128(u) \in [0..N -> Val]
         /\ [kstack EXCEPT ![cur] = handler_idt128(u)] \in [Task -> [0..N -> Val]]
         /\ [kstack EXCEPT ![cur] = handler_idt128(u)][cur] = handler_idt128(u)
         /\ \A x \in Task : x # cur =>
              [kstack EXCEPT ![cur] = handler_idt128(u)][x] = kstack[x]
         /\ \A res \in Val : /\ [u EXCEPT !["rax"] = res] \in [Registers -> Val]
                             /\ [u EXCEPT !["rax"] = res]["pc"] = u["pc"]
  <1>1. cur \in Task /\ alive \subseteq Task /\ u \in [Registers -> Val]
    BY DEF IInv, TypeOK
  <1>2. handler_idt128(u) \in [0..N -> Val]
    BY <1>1, SyscallFrame
  <1>3. kstack \in [Task -> [0..N -> Val]]
    BY DEF IInv, TypeOK
  <1> QED
    BY <1>1, <1>2, <1>3, RaxRegister

LEMMA SyscallReturnsStep ==
  ASSUME IInv, NEW res \in Results, syscall_returns(res)
  PROVE  IInv'
  <1>1. TypeOK'
    BY SyscallEntry DEF IInv, TypeOK, syscall_returns
  <1>2. InReadFrame'
    BY DEF InReadFrame, syscall_returns, UserMode
  <1>3. \A x \in alive' \ {cur'} : /\ x \in alive \ {cur} /\ kstack'[x] = kstack[x]
                                 /\ due'[x] = due[x] /\ left'[x] = left[x]
    BY SyscallEntry DEF syscall_returns
  <1> QED
    BY <1>1, <1>2, <1>3, StepIInv

LEMMA ReadStep ==
  ASSUME IInv, sys_read
  PROVE  IInv'
  <1>1. TypeOK'
    BY SyscallEntry DEF IInv, TypeOK, sys_read
  <1>2. InReadFrame'
    BY SyscallEntry DEF InReadFrame, sys_read
  <1>3. \A x \in alive' \ {cur'} : /\ x \in alive \ {cur} /\ kstack'[x] = kstack[x]
                                 /\ due'[x] = due[x] /\ left'[x] = left[x]
    BY SyscallEntry DEF sys_read
  <1> QED
    BY <1>1, <1>2, <1>3, StepIInv

LEMMA ReadReturnsStep ==
  ASSUME IInv, NEW res \in Results, sys_read_returns(res)
  PROVE  IInv'
  <1>1. TypeOK'
    BY SyscallEntry DEF IInv, TypeOK, sys_read_returns
  <1>2. InReadFrame'
    BY DEF InReadFrame, sys_read_returns
  <1>3. \A x \in alive' \ {cur'} : /\ x \in alive \ {cur} /\ kstack'[x] = kstack[x]
                                 /\ due'[x] = due[x] /\ left'[x] = left[x]
    BY DEF sys_read_returns
  <1> QED
    BY <1>1, <1>2, <1>3, StepIInv

LEMMA BlockStep ==
  ASSUME IInv, NEW t \in alive, NEW res \in Results, syscall_blocks(t, res)
  PROVE  IInv'
  <1> DEFINE ks == [kstack EXCEPT ![cur] = handler_idt128(u)]
             d == [u EXCEPT !["rax"] = res]
  <1>1. /\ cur \in Task /\ alive \subseteq Task /\ u \in [Registers -> Val]
        /\ ks \in [Task -> [0..N -> Val]] /\ ks[cur] = handler_idt128(u)
        /\ \A x \in Task : x # cur => ks[x] = kstack[x]
        /\ d \in [Registers -> Val] /\ d["pc"] = u["pc"]
    BY SyscallEntry
  <1>2. /\ kstack' = ks /\ cur' = t /\ u' = sys_yield(ks[t]) /\ inread' = FALSE
        /\ due' = [due EXCEPT ![cur] = d] /\ left' = [left EXCEPT ![cur] = "blocked"]
        /\ alive' = alive
    BY DEF syscall_blocks, SwitchTo, Leaves
  <1>0. Shifted(handler_idt128(u), d)
    BY <1>1, SyscallShifts, Zenon
  <1> HIDE DEF ks, d
  <1>3. u' \in [Registers -> Val]
    BY <1>1, <1>2, YieldType
  <1>4. TypeOK'
    BY <1>1, <1>2, <1>3 DEF IInv, TypeOK
  <1>5. due'[cur] = d /\ left'[cur] = "blocked"
    BY <1>1, <1>2 DEF IInv, TypeOK
  <1>6. sys_yield(ks[cur])["pc"] = u["pc"] /\ Shifted(ks[cur], d)
    <2>1. ks[cur][N] = u["pc"]
      BY <1>1, SyscallFrame
    <2> QED
      BY <1>0, <1>1, <2>1, YieldValue
  <1>7. Restored(cur, kstack'[cur], due'[cur], left'[cur])
    BY <1>1, <1>2, <1>5, <1>6 DEF Restored
  <1>8. \A x \in Task : x # cur => /\ kstack'[x] = kstack[x] /\ due'[x] = due[x]
                                  /\ left'[x] = left[x]
    BY <1>1, <1>2 DEF IInv, TypeOK
  <1>9. InReadFrame'
    BY <1>2 DEF InReadFrame
  <1> QED
    BY <1>1, <1>2, <1>4, <1>7, <1>8, <1>9, StepIInv

LEMMA ForkStep ==
  ASSUME IInv, NEW c \in Task, NEW pid \in Results, sys_fork(c, pid)
  PROVE  IInv'
  <1> DEFINE h == handler_idt128(u)
             fr == fork_frame(h)
             d == [u EXCEPT !["rax"] = 0]
  <1>1. /\ cur \in Task /\ alive \subseteq Task /\ u \in [Registers -> Val]
        /\ h \in [0..N -> Val]
        /\ d \in [Registers -> Val]
        /\ [u EXCEPT !["rax"] = pid] \in [Registers -> Val]
    BY SyscallEntry
  <1>2. fr \in [0..N -> Val] /\ sys_yield(fr) = d
    BY <1>1, ForkFrame
  <1>3. /\ kstack' = [kstack EXCEPT ![cur] = h, ![c] = fr]
        /\ due' = [due EXCEPT ![c] = d] /\ left' = [left EXCEPT ![c] = "forked"]
        /\ u' = [u EXCEPT !["rax"] = pid]
        /\ alive' = alive \cup {c} /\ cur' = cur /\ inread' = inread
        /\ c \notin alive /\ ~inread
    BY DEF sys_fork, UserMode
  <1> HIDE DEF h, fr, d
  <1>4. TypeOK'
    BY <1>1, <1>2, <1>3 DEF IInv, TypeOK
  <1>5. kstack'[c] = fr /\ due'[c] = d /\ left'[c] = "forked"
    BY <1>1, <1>2, <1>3 DEF IInv, TypeOK
  <1>6. Restored(c, kstack'[c], due'[c], left'[c])
    BY <1>2, <1>5 DEF Restored
  <1>7. \A x \in Task : x # cur /\ x # c =>
          /\ kstack'[x] = kstack[x] /\ due'[x] = due[x] /\ left'[x] = left[x]
    BY <1>3 DEF IInv, TypeOK
  <1>8. InReadFrame'
    BY <1>3 DEF InReadFrame
  <1> QED
    BY <1>1, <1>3, <1>4, <1>6, <1>7, <1>8, StepIInv, Zenon

LEMMA ExecveStep ==
  ASSUME IInv, NEW c \in Task, NEW t \in Task, sys_execve(c, t)
  PROVE  IInv'
  <1> DEFINE h == handler_idt128(u)
  <1>1. cur \in Task /\ alive \subseteq Task /\ h \in [0..N -> Val]
    BY SyscallEntry
  <1>2. /\ kstack' = [kstack EXCEPT ![cur] = h, ![c] = new_frame]
        /\ cur' = t /\ u' = sys_yield(kstack'[t]) /\ inread' = FALSE
        /\ alive' = (alive \ {cur}) \cup {c} /\ t \in alive'
        /\ due' = [due EXCEPT ![c] = NewState] /\ left' = [left EXCEPT ![c] = "new"]
    BY DEF sys_execve, SwitchTo
  <1> HIDE DEF h
  <1>3. kstack' \in [Task -> [0..N -> Val]]
    BY <1>1, <1>2, NewFrame DEF IInv, TypeOK
  <1>4. u' \in [Registers -> Val]
    BY <1>2, <1>3, YieldType
  <1>5. TypeOK'
    BY <1>1, <1>2, <1>3, <1>4, NewFrame DEF IInv, TypeOK
  <1>6. kstack'[c] = new_frame /\ due'[c] = NewState /\ left'[c] = "new"
    BY <1>1, <1>2, NewFrame DEF IInv, TypeOK
  <1>7. Restored(c, kstack'[c], due'[c], left'[c])
    BY <1>6, NewFrame DEF Restored
  <1>8. \A x \in Task : x # cur /\ x # c =>
          /\ kstack'[x] = kstack[x] /\ due'[x] = due[x] /\ left'[x] = left[x]
    BY <1>2 DEF IInv, TypeOK
  <1>9. InReadFrame'
    BY <1>2 DEF InReadFrame
  <1> QED
    BY <1>1, <1>2, <1>5, <1>7, <1>8, <1>9, StepIInv, Zenon

LEMMA ExitStep ==
  ASSUME IInv, NEW t \in alive, sys_exit(t)
  PROVE  IInv'
  <1> DEFINE ks == [kstack EXCEPT ![cur] = handler_idt128(u)]
  <1>1. /\ cur \in Task /\ alive \subseteq Task /\ ks \in [Task -> [0..N -> Val]]
        /\ \A x \in Task : x # cur => ks[x] = kstack[x]
    BY SyscallEntry
  <1>2. /\ kstack' = ks /\ cur' = t /\ u' = sys_yield(ks[t]) /\ inread' = FALSE
        /\ alive' = alive \ {cur} /\ due' = due /\ left' = left /\ t # cur
    BY DEF sys_exit, SwitchTo
  <1> HIDE DEF ks
  <1>3. u' \in [Registers -> Val]
    BY <1>1, <1>2, YieldType, Zenon
  <1>4. TypeOK'
    BY <1>1, <1>2, <1>3 DEF IInv, TypeOK
  <1>5. \A x \in alive' \ {cur'} : /\ x \in alive \ {cur} /\ kstack'[x] = kstack[x]
                                 /\ due'[x] = due[x] /\ left'[x] = left[x]
    BY <1>1, <1>2
  <1>6. InReadFrame'
    BY <1>2 DEF InReadFrame
  <1> QED
    BY <1>4, <1>5, <1>6, StepIInv

LEMMA NextIInv == IInv /\ [Next]_vars => IInv'
  <1> SUFFICES ASSUME IInv, [Next]_vars PROVE IInv'
    OBVIOUS
  <1>1. CASE UNCHANGED vars
    <2>1. TypeOK' /\ InReadFrame'
      BY <1>1 DEF vars, IInv, TypeOK, InReadFrame
    <2> QED
      BY <1>1, <2>1, StepIInv DEF vars
  <1>2. CASE Next
    BY <1>2, UserStep, TimerUserStep, TimerInReadStep, SyscallReturnsStep, ReadStep,
       ReadReturnsStep, BlockStep, ForkStep, ExecveStep, ExitStep DEF Next
  <1> QED
    BY <1>1, <1>2

(* The inductive invariant holds in every state.                           *)
THEOREM SpecIInv == Spec => []IInv
  BY InitIInv, NextIInv, PTL DEF Spec

(* Every value a task's registers, saved stack or history ever hold is a   *)
(* register value, and the running task is alive.                          *)
THEOREM TypeCorrect == Spec => []TypeOK
  <1>1. IInv => TypeOK
    BY DEF IInv
  <1> QED
    BY <1>1, SpecIInv, PTL

(* For any register file and any tasks: the frames that irq.s, sys_fork()  *)
(* and sys_yield() agree on by convention restore every register of a      *)
(* preempted task, of a forked child and of a new program.                 *)
THEOREM Restoring == Spec => []RegistersRestored
  <1>1. IInv => RegistersRestored
    BY DEF IInv
  <1> QED
    BY <1>1, SpecIInv, PTL

(* For any register file and any tasks: a task resumes where it was,       *)
(* however it left the CPU.                                                *)
THEOREM Resuming == Spec => []ResumesInPlace
  <1>1. IInv => ResumesInPlace
    BY DEF IInv
  <1> QED
    BY <1>1, SpecIInv, PTL

(* For any register file and any tasks: a task that blocked, or lost the   *)
(* CPU inside read(), is resumed at its own instruction with its own       *)
(* registers, shifted by one.                                              *)
THEOREM Shifting == Spec => []ShiftedByOne
  <1>1. IInv => ShiftedByOne
    BY DEF IInv
  <1> QED
    BY <1>1, SpecIInv, PTL
=============================================================================
