---------------------------- MODULE AccountsProofs ----------------------------
(***************************************************************************)
(* Proofs about Accounts, for any number of calls, of requests that a      *)
(* counter admits, and of faults.                                          *)
(***************************************************************************)
EXTENDS Accounts, TLAPS

USE DEF vars, db, redis, past, meant, writes

\* Where a call of each kind can be, what it has been given there, and what it has
\* written.
CallOk(c) ==
  /\ pc[c] = "idle" => kind[c] = "none"
  /\ wrote[c] # 0 => kind[c] = "enroll" /\ pc[c] \in {"release", "unlock", "commit"}
  /\ added[c] # 0 => kind[c] \in {"verify", "staff"} /\ pc[c] \in {"deleteOtp", "deletePending", "commit"}
  /\ pc[c] \in {"deleteOtp", "deletePending"} => kind[c] = "verify" /\ added[c] # 0
  /\ pc[c] = "commit" /\ kind[c] # "enroll" => kind[c] \in {"verify", "staff"} /\ added[c] # 0
  /\ pc[c] \in {"lock", "readUser", "compute", "forUpdate", "release", "unlock"} => kind[c] = "enroll"
  /\ pc[c] \in {"incr", "expire"} => kind[c] \in {"register", "resend", "enroll"}
  /\ pc[c] \in {"lookUp", "setPending"} => kind[c] = "register"
  /\ pc[c] \in {"setOtp", "publish"} => kind[c] \in {"register", "resend"}
  /\ pc[c] \in {"readOtp", "insert"} => kind[c] \in {"verify", "staff"}
  /\ kind[c] = "enroll" =>
       /\ password # 0 /\ arg[c] \in 1..serial
       /\ pc[c] \in {"incr", "expire", "lock", "readUser", "compute", "forUpdate", "release", "unlock", "commit"}
  /\ kind[c] = "register" /\ pc[c] \in {"incr", "expire", "lookUp", "setPending"} => arg[c] # 0
  /\ pc[c] \in {"insert", "setOtp"} => arg[c] # 0
  /\ pc[c] = "publish" => arg[c] \in 1..codes

\* The row of the address has one writer of either kind.
CallsInv ==
  /\ \A c \in Calls : CallOk(c)
  /\ \A c, d \in Calls : added[c] # 0 /\ added[d] # 0 => c = d
  /\ \A c, d \in Calls : wrote[c] # 0 /\ wrote[d] # 0 => c = d

\* No two enrollments have the same lock value; one that has not tried yet does not
\* hold the lock, and one that has released it holds it by a fault only.
LockInv ==
  /\ LockFreed
  /\ lock \in 0..serial
  /\ \A c, d \in Calls : kind[c] = "enroll" /\ kind[d] = "enroll" /\ arg[c] = arg[d] => c = d
  /\ \A c \in Calls : kind[c] = "enroll" /\ pc[c] \in {"incr", "expire", "lock"} => lock # arg[c]
  /\ \A c \in Calls : kind[c] = "enroll" /\ pc[c] = "commit" /\ lock = arg[c] => "lock" \in abandoned

\* There is no code but the newest, and unless it has lapsed, or its registration was
\* overwritten, it is there with its registration, or was used.
CodeInv ==
  /\ otp \in {0, codes}
  /\ ~lapsed => issued # 0
  /\ ~lapsed /\ issued \notin overwritten =>
       \/ otp = codes /\ pending = issued
       \/ password # 0
       \/ \E c \in Calls : HasUsed(c)

AccountInv == TypeOK /\ CallsInv /\ LockInv /\ CounterExpires /\ CodeInv

\* What every step of a call leaves alone: the other calls, what has been counted and
\* that there is an account; and it writes to the row only if nobody else has.
Frame(c) ==
  /\ \A d \in Calls \ {c} : /\ kind'[d] = kind[d] /\ pc'[d] = pc[d] /\ arg'[d] = arg[d]
                            /\ added'[d] = added[d] /\ wrote'[d] = wrote[d]
  /\ serial' >= serial /\ codes' >= codes
  /\ password # 0 => password' # 0
  /\ added'[c] # 0 /\ added[c] = 0 => \A d \in Calls : added[d] = 0
  /\ wrote'[c] # 0 /\ wrote[c] = 0 => \A d \in Calls : wrote[d] = 0


-----------------------------------------------------------------------------
(*****************************************************************************)
(* Frames.                                                                  *)
(*****************************************************************************)
\* A step of a call.
CallMoves(c) == Start(c) \/ Step(c) \/ FailOpen(c) \/ LockFailsOpen(c) \/ Fault(c) \/ Die(c)

\* Every step of a call keeps to the frame.
LEMMA FrameOfMove ==
  ASSUME TypeOK, NEW c \in Calls, CallMoves(c)
  PROVE  Frame(c)
<1> USE DEF TypeOK, Frame
<1>1. CASE BeginRegister(c)
  BY <1>1 DEF BeginRegister, Begin
<1>2. CASE BeginResend(c)
  BY <1>2 DEF BeginResend, Begin
<1>3. CASE BeginVerify(c)
  BY <1>3 DEF BeginVerify, Begin
<1>4. CASE BeginStaff(c)
  BY <1>4 DEF BeginStaff, Begin
<1>5. CASE BeginEnroll(c)
  BY <1>5 DEF BeginEnroll, Begin
<1>6. CASE Incr(c)
  BY <1>6 DEF Incr, StartsWindow, Admitted, Key, Goto, End
<1>7. CASE Expire(c)
  BY <1>7 DEF Expire, Admitted, Key, Goto
<1>8. CASE LookUp(c)
  BY <1>8 DEF LookUp, Goto, End
<1>9. CASE SetPending(c)
  BY <1>9 DEF SetPending, Overwritten, Goto
<1>10. CASE FindPending(c)
  BY <1>10 DEF FindPending, Goto, End
<1>11. CASE SetOtp(c)
  BY <1>11 DEF SetOtp
<1>12. CASE Publish(c)
  BY <1>12 DEF Publish, End
<1>13. CASE ReadOtp(c)
  BY <1>13 DEF ReadOtp, CodeAfterRead, Goto, End
<1>14. CASE ReadPending(c)
  BY <1>14 DEF ReadPending, End
<1>15. CASE InsertUser(c)
  BY <1>15 DEF InsertUser, End
<1>16. CASE DeleteOtp(c)
  BY <1>16 DEF DeleteOtp, Goto
<1>17. CASE DeletePending(c)
  BY <1>17 DEF DeletePending, Goto
<1>18. CASE TakeLock(c)
  BY <1>18 DEF TakeLock, Goto, End
<1>19. CASE ReadUser(c)
  BY <1>19 DEF ReadUser, Goto
<1>20. CASE Compute(c)
  BY <1>20 DEF Compute, Goto
<1>21. CASE SetEmbedding(c)
  BY <1>21 DEF SetEmbedding, StillFaceless
<1>22. CASE Compare(c)
  BY <1>22 DEF Compare, Releases, AfterRelease, Goto, End
<1>23. CASE Unlock(c)
  BY <1>23 DEF Unlock, AfterRelease, Goto, End
<1>24. CASE Commit(c)
  BY <1>24 DEF Commit, End
<1>25. CASE FailOpen(c)
  BY <1>25 DEF FailOpen, Admitted, Immortal, Key, Goto
<1>26. CASE LockFailsOpen(c)
  BY <1>26 DEF LockFailsOpen, Goto
<1>27. CASE Fault(c)
  BY <1>27 DEF Fault, HasUsed, Lost, Overwritten, AfterRelease, Goto, End
<1>28. CASE Die(c)
  BY <1>28 DEF Die, HasUsed, Lost, Key, End
<1>29. QED BY <1>1, <1>2, <1>3, <1>4, <1>5, <1>6, <1>7, <1>8, <1>9, <1>10, <1>11, <1>12,
      <1>13, <1>14, <1>15, <1>16, <1>17, <1>18, <1>19, <1>20, <1>21, <1>22, <1>23, <1>24,
      <1>25, <1>26, <1>27, <1>28 DEF CallMoves, Start, Step

\* A step that keeps to the frame concerns the call that takes it.
LEMMA MoveCalls ==
  ASSUME TypeOK, CallsInv, NEW c \in Calls, Frame(c), CallOk(c)', serial' \in Nat,
        codes' \in Nat
  PROVE  CallsInv'
<1>1. ASSUME NEW d \in Calls \ {c} PROVE CallOk(d)'
  BY <1>1 DEF TypeOK, CallsInv, CallOk, Frame
<1>2. QED BY <1>1 DEF CallsInv, Frame

\* A call is where its kind may be, with what it must have there.
LEMMA CallsStep == AccountInv /\ TypeOK' /\ [Next]_vars => CallsInv'
<1> SUFFICES ASSUME TypeOK, TypeOK', CallsInv, [Next]_vars PROVE CallsInv'
  BY DEF AccountInv
<1> USE DEF TypeOK
<1>1. ASSUME NEW c \in Calls, BeginRegister(c) PROVE CallsInv'
  <2>1. CallOk(c)'
    BY <1>1 DEF BeginRegister, Begin, CallsInv, CallOk
  <2>2. QED BY <1>1, <2>1, FrameOfMove, MoveCalls DEF CallMoves, Start
<1>2. ASSUME NEW c \in Calls, BeginResend(c) PROVE CallsInv'
  <2>1. CallOk(c)'
    BY <1>2 DEF BeginResend, Begin, CallsInv, CallOk
  <2>2. QED BY <1>2, <2>1, FrameOfMove, MoveCalls DEF CallMoves, Start
<1>3. ASSUME NEW c \in Calls, BeginVerify(c) PROVE CallsInv'
  <2>1. CallOk(c)'
    BY <1>3 DEF BeginVerify, Begin, CallsInv, CallOk
  <2>2. QED BY <1>3, <2>1, FrameOfMove, MoveCalls DEF CallMoves, Start
<1>4. ASSUME NEW c \in Calls, BeginStaff(c) PROVE CallsInv'
  <2>1. CallOk(c)'
    BY <1>4 DEF BeginStaff, Begin, CallsInv, CallOk
  <2>2. QED BY <1>4, <2>1, FrameOfMove, MoveCalls DEF CallMoves, Start
<1>5. ASSUME NEW c \in Calls, BeginEnroll(c) PROVE CallsInv'
  <2>1. CallOk(c)'
    BY <1>5 DEF BeginEnroll, Begin, CallsInv, CallOk
  <2>2. QED BY <1>5, <2>1, FrameOfMove, MoveCalls DEF CallMoves, Start
<1>6. ASSUME NEW c \in Calls, Incr(c) PROVE CallsInv'
  <2>1. CallOk(c)'
    BY <1>6 DEF Incr, StartsWindow, Admitted, Key, Goto, End, CallsInv, CallOk
  <2>2. QED BY <1>6, <2>1, FrameOfMove, MoveCalls DEF CallMoves, Step
<1>7. ASSUME NEW c \in Calls, Expire(c) PROVE CallsInv'
  <2>1. CallOk(c)'
    BY <1>7 DEF Expire, Admitted, Key, Goto, CallsInv, CallOk
  <2>2. QED BY <1>7, <2>1, FrameOfMove, MoveCalls DEF CallMoves, Step
<1>8. ASSUME NEW c \in Calls, LookUp(c) PROVE CallsInv'
  <2>1. CallOk(c)'
    BY <1>8 DEF LookUp, Goto, End, CallsInv, CallOk
  <2>2. QED BY <1>8, <2>1, FrameOfMove, MoveCalls DEF CallMoves, Step
<1>9. ASSUME NEW c \in Calls, SetPending(c) PROVE CallsInv'
  <2>1. CallOk(c)'
    BY <1>9 DEF SetPending, Overwritten, Goto, CallsInv, CallOk
  <2>2. QED BY <1>9, <2>1, FrameOfMove, MoveCalls DEF CallMoves, Step
<1>10. ASSUME NEW c \in Calls, FindPending(c) PROVE CallsInv'
  <2>1. CallOk(c)'
    BY <1>10 DEF FindPending, Goto, End, CallsInv, CallOk
  <2>2. QED BY <1>10, <2>1, FrameOfMove, MoveCalls DEF CallMoves, Step
<1>11. ASSUME NEW c \in Calls, SetOtp(c) PROVE CallsInv'
  <2>1. CallOk(c)'
    BY <1>11 DEF SetOtp, CallsInv, CallOk
  <2>2. QED BY <1>11, <2>1, FrameOfMove, MoveCalls DEF CallMoves, Step
<1>12. ASSUME NEW c \in Calls, Publish(c) PROVE CallsInv'
  <2>1. CallOk(c)'
    BY <1>12 DEF Publish, End, CallsInv, CallOk
  <2>2. QED BY <1>12, <2>1, FrameOfMove, MoveCalls DEF CallMoves, Step
<1>13. ASSUME NEW c \in Calls, ReadOtp(c) PROVE CallsInv'
  <2>1. CallOk(c)'
    BY <1>13 DEF ReadOtp, CodeAfterRead, Goto, End, CallsInv, CallOk
  <2>2. QED BY <1>13, <2>1, FrameOfMove, MoveCalls DEF CallMoves, Step
<1>14. ASSUME NEW c \in Calls, ReadPending(c) PROVE CallsInv'
  <2>1. CallOk(c)'
    BY <1>14 DEF ReadPending, End, CallsInv, CallOk
  <2>2. QED BY <1>14, <2>1, FrameOfMove, MoveCalls DEF CallMoves, Step
<1>15. ASSUME NEW c \in Calls, InsertUser(c) PROVE CallsInv'
  <2>1. CallOk(c)'
    BY <1>15 DEF InsertUser, End, CallsInv, CallOk
  <2>2. QED BY <1>15, <2>1, FrameOfMove, MoveCalls DEF CallMoves, Step
<1>16. ASSUME NEW c \in Calls, DeleteOtp(c) PROVE CallsInv'
  <2>1. CallOk(c)'
    BY <1>16 DEF DeleteOtp, Goto, CallsInv, CallOk
  <2>2. QED BY <1>16, <2>1, FrameOfMove, MoveCalls DEF CallMoves, Step
<1>17. ASSUME NEW c \in Calls, DeletePending(c) PROVE CallsInv'
  <2>1. CallOk(c)'
    BY <1>17 DEF DeletePending, Goto, CallsInv, CallOk
  <2>2. QED BY <1>17, <2>1, FrameOfMove, MoveCalls DEF CallMoves, Step
<1>18. ASSUME NEW c \in Calls, TakeLock(c) PROVE CallsInv'
  <2>1. CallOk(c)'
    BY <1>18 DEF TakeLock, Goto, End, CallsInv, CallOk
  <2>2. QED BY <1>18, <2>1, FrameOfMove, MoveCalls DEF CallMoves, Step
<1>19. ASSUME NEW c \in Calls, ReadUser(c) PROVE CallsInv'
  <2>1. CallOk(c)'
    BY <1>19 DEF ReadUser, Goto, CallsInv, CallOk
  <2>2. QED BY <1>19, <2>1, FrameOfMove, MoveCalls DEF CallMoves, Step
<1>20. ASSUME NEW c \in Calls, Compute(c) PROVE CallsInv'
  <2>1. CallOk(c)'
    BY <1>20 DEF Compute, Goto, CallsInv, CallOk
  <2>2. QED BY <1>20, <2>1, FrameOfMove, MoveCalls DEF CallMoves, Step
<1>21. ASSUME NEW c \in Calls, SetEmbedding(c) PROVE CallsInv'
  <2>1. CallOk(c)'
    BY <1>21 DEF SetEmbedding, StillFaceless, CallsInv, CallOk
  <2>2. QED BY <1>21, <2>1, FrameOfMove, MoveCalls DEF CallMoves, Step
<1>22. ASSUME NEW c \in Calls, Compare(c) PROVE CallsInv'
  <2>1. CallOk(c)'
    BY <1>22 DEF Compare, Releases, AfterRelease, Goto, End, CallsInv, CallOk
  <2>2. QED BY <1>22, <2>1, FrameOfMove, MoveCalls DEF CallMoves, Step
<1>23. ASSUME NEW c \in Calls, Unlock(c) PROVE CallsInv'
  <2>1. CallOk(c)'
    BY <1>23 DEF Unlock, AfterRelease, Goto, End, CallsInv, CallOk
  <2>2. QED BY <1>23, <2>1, FrameOfMove, MoveCalls DEF CallMoves, Step
<1>24. ASSUME NEW c \in Calls, Commit(c) PROVE CallsInv'
  <2>1. CallOk(c)'
    BY <1>24 DEF Commit, End, CallsInv, CallOk
  <2>2. QED BY <1>24, <2>1, FrameOfMove, MoveCalls DEF CallMoves, Step
<1>25. ASSUME NEW c \in Calls, FailOpen(c) PROVE CallsInv'
  <2>1. CallOk(c)'
    BY <1>25 DEF FailOpen, Admitted, Immortal, Key, Goto, CallsInv, CallOk
  <2>2. QED BY <1>25, <2>1, FrameOfMove, MoveCalls DEF CallMoves
<1>26. ASSUME NEW c \in Calls, LockFailsOpen(c) PROVE CallsInv'
  <2>1. CallOk(c)'
    BY <1>26 DEF LockFailsOpen, Goto, CallsInv, CallOk
  <2>2. QED BY <1>26, <2>1, FrameOfMove, MoveCalls DEF CallMoves
<1>27. ASSUME NEW c \in Calls, Fault(c) PROVE CallsInv'
  <2>1. CallOk(c)'
    BY <1>27 DEF Fault, HasUsed, Lost, Overwritten, AfterRelease, Goto, End, CallsInv, CallOk
  <2>2. QED BY <1>27, <2>1, FrameOfMove, MoveCalls DEF CallMoves
<1>28. ASSUME NEW c \in Calls, Die(c) PROVE CallsInv'
  <2>1. CallOk(c)'
    BY <1>28 DEF Die, HasUsed, Lost, Key, End, CallsInv, CallOk
  <2>2. QED BY <1>28, <2>1, FrameOfMove, MoveCalls DEF CallMoves
<1>29. CASE Lapse
  BY <1>29 DEF Lapse, CallsInv, CallOk
<1>30. CASE UNCHANGED vars
  BY <1>30 DEF CallsInv, CallOk
<1>31. QED BY <1>1, <1>2, <1>3, <1>4, <1>5, <1>6, <1>7, <1>8, <1>9, <1>10, <1>11, <1>12,
      <1>13, <1>14, <1>15, <1>16, <1>17, <1>18, <1>19, <1>20, <1>21, <1>22, <1>23, <1>24,
      <1>25, <1>26, <1>27, <1>28, <1>29, <1>30 DEF Next, Start, Step

\* EXPIRE makes a counter expire if there is one.
LEMMA ExpiresType ==
  ASSUME NEW f \in [Counters -> [count : Nat, expires : BOOLEAN]], NEW k \in Counters
  PROVE  [f EXCEPT ![k].expires = f[k].count > 0] \in [Counters -> [count : Nat, expires : BOOLEAN]]
<1>1. \A b \in BOOLEAN : [f EXCEPT ![k].expires = b] \in [Counters -> [count : Nat, expires : BOOLEAN]]
  <2> SUFFICES ASSUME NEW b \in BOOLEAN
               PROVE  [f EXCEPT ![k].expires = b] \in [Counters -> [count : Nat, expires : BOOLEAN]]
    OBVIOUS
  <2>1. [f[k] EXCEPT !.expires = b] \in [count : Nat, expires : BOOLEAN]
    OBVIOUS
  <2>2. [f EXCEPT ![k].expires = b] = [f EXCEPT ![k] = [f[k] EXCEPT !.expires = b]]
    OBVIOUS
  <2>3. QED BY <2>1, <2>2
<1>2. (f[k].count > 0) \in BOOLEAN
  OBVIOUS
<1>3. QED BY <1>1, <1>2

\* Every step keeps every variable within its type.
LEMMA TypeStep == AccountInv /\ [Next]_vars => TypeOK'
<1> SUFFICES ASSUME TypeOK, CallsInv, CodeInv, [Next]_vars PROVE TypeOK'
  BY DEF AccountInv
<1> USE BoundAssumption, LimitAssumption DEF TypeOK, CallsInv, CallOk, Counters
<1>1. ASSUME NEW c \in Calls, BeginRegister(c) PROVE TypeOK'
  BY <1>1 DEF BeginRegister, Begin
<1>2. ASSUME NEW c \in Calls, BeginResend(c) PROVE TypeOK'
  BY <1>2 DEF BeginResend, Begin
<1>3. ASSUME NEW c \in Calls, BeginVerify(c) PROVE TypeOK'
  BY <1>3 DEF BeginVerify, Begin
<1>4. ASSUME NEW c \in Calls, BeginStaff(c) PROVE TypeOK'
  BY <1>4 DEF BeginStaff, Begin
<1>5. ASSUME NEW c \in Calls, BeginEnroll(c) PROVE TypeOK'
  BY <1>5 DEF BeginEnroll, Begin
<1>6. ASSUME NEW c \in Calls, Incr(c) PROVE TypeOK'
  BY <1>6 DEF Incr, StartsWindow, Admitted, Key, Goto, End
<1>7. ASSUME NEW c \in Calls, Expire(c) PROVE TypeOK'
  <2>1. Key(c) \in Counters
    BY DEF Key
  <2>2. counters' \in [Counters -> [count : Nat, expires : BOOLEAN]]
    BY <1>7, <2>1, ExpiresType DEF Expire
  <2>3. QED BY <1>7, <2>2 DEF Expire, Admitted, Goto
<1>8. ASSUME NEW c \in Calls, LookUp(c) PROVE TypeOK'
  BY <1>8 DEF LookUp, Goto, End
<1>9. ASSUME NEW c \in Calls, SetPending(c) PROVE TypeOK'
  BY <1>9 DEF SetPending, Overwritten, Goto
<1>10. ASSUME NEW c \in Calls, FindPending(c) PROVE TypeOK'
  BY <1>10 DEF FindPending, Goto, End
<1>11. ASSUME NEW c \in Calls, SetOtp(c) PROVE TypeOK'
  BY <1>11 DEF SetOtp
<1>12. ASSUME NEW c \in Calls, Publish(c) PROVE TypeOK'
  BY ZenonT(40), <1>12 DEF Publish, End
<1>13. ASSUME NEW c \in Calls, ReadOtp(c) PROVE TypeOK'
  BY <1>13 DEF ReadOtp, CodeAfterRead, Goto, End
<1>14. ASSUME NEW c \in Calls, ReadPending(c) PROVE TypeOK'
  BY <1>14 DEF ReadPending, End
<1>15. ASSUME NEW c \in Calls, InsertUser(c) PROVE TypeOK'
  BY <1>15 DEF InsertUser, End
<1>16. ASSUME NEW c \in Calls, DeleteOtp(c) PROVE TypeOK'
  BY <1>16 DEF DeleteOtp, Goto
<1>17. ASSUME NEW c \in Calls, DeletePending(c) PROVE TypeOK'
  BY <1>17 DEF DeletePending, Goto
<1>18. ASSUME NEW c \in Calls, TakeLock(c) PROVE TypeOK'
  <2>1. lock' \in Nat /\ abandoned' \subseteq abandoned
    BY <1>18 DEF TakeLock
  <2>2. CASE End(c)
    BY <1>18, <2>1, <2>2 DEF TakeLock, End
  <2>3. CASE ~End(c)
    BY <1>18, <2>1, <2>3 DEF TakeLock, Goto
  <2>4. QED BY <2>2, <2>3
<1>19. ASSUME NEW c \in Calls, ReadUser(c) PROVE TypeOK'
  BY <1>19 DEF ReadUser, Goto
<1>20. ASSUME NEW c \in Calls, Compute(c) PROVE TypeOK'
  BY <1>20 DEF Compute, Goto
<1>21. ASSUME NEW c \in Calls, SetEmbedding(c) PROVE TypeOK'
  BY <1>21 DEF SetEmbedding, StillFaceless
<1>22. ASSUME NEW c \in Calls, Compare(c) PROVE TypeOK'
  BY <1>22 DEF Compare, Releases, AfterRelease, Goto, End
<1>23. ASSUME NEW c \in Calls, Unlock(c) PROVE TypeOK'
  BY <1>23 DEF Unlock, AfterRelease, Goto, End
<1>24. ASSUME NEW c \in Calls, Commit(c) PROVE TypeOK'
  BY <1>24 DEF Commit, End
<1>25. ASSUME NEW c \in Calls, FailOpen(c) PROVE TypeOK'
  <2>1. Key(c) \in Counters
    BY DEF Key
  <2>2. counters' \in [Counters -> [count : Nat, expires : BOOLEAN]]
    <3>1. \/ counters' = counters
          \/ counters' = [counters EXCEPT ![Key(c)].count = counters[Key(c)].count + 1]
          \/ counters' = [counters EXCEPT ![Key(c)].expires = counters[Key(c)].count > 0]
      BY <1>25 DEF FailOpen
    <3>2. CASE counters' = [counters EXCEPT ![Key(c)].count = counters[Key(c)].count + 1]
      BY <2>1, <3>2
    <3>3. CASE counters' = [counters EXCEPT ![Key(c)].expires = counters[Key(c)].count > 0]
      BY <2>1, <3>3, ExpiresType
    <3>4. QED BY <3>1, <3>2, <3>3
  <2>3. abandoned' \subseteq Counters \cup {"lock"}
    BY <1>25, <2>1 DEF FailOpen
  <2>4. QED BY <1>25, <2>2, <2>3 DEF FailOpen, Admitted, Goto
<1>26. ASSUME NEW c \in Calls, LockFailsOpen(c) PROVE TypeOK'
  <2>1. lock' \in Nat /\ abandoned' \subseteq abandoned
    BY <1>26 DEF LockFailsOpen
  <2>2. QED BY <1>26, <2>1 DEF LockFailsOpen, Goto
<1>27. ASSUME NEW c \in Calls, Fault(c) PROVE TypeOK'
  BY <1>27 DEF Fault, HasUsed, Lost, Overwritten, AfterRelease, Goto, End
<1>28. ASSUME NEW c \in Calls, Die(c) PROVE TypeOK'
  BY <1>28 DEF Die, HasUsed, Lost, Key, End
<1>29. CASE Lapse
  <2>1. /\ pending' \in Nat /\ otp' \in {0, otp} /\ lock' \in Nat /\ lapsed' \in BOOLEAN
        /\ counters' \in [{"email", "enroll"} -> [count : Nat, expires : BOOLEAN]]
    <3>1. CASE \E k \in Counters : counters' = [counters EXCEPT ![k] = [count |-> 0, expires |-> FALSE]]
                                   /\ UNCHANGED <<pending, otp, lock, lapsed>>
      BY <3>1
    <3>2. CASE counters' = counters
      <4>1. pending' \in {0, pending} /\ otp' \in {0, otp} /\ lock' \in {0, lock} /\ (lapsed' = lapsed \/ lapsed' = TRUE)
        BY <1>29 DEF Lapse
      <4>2. pending' \in Nat /\ lock' \in Nat
        BY <4>1
      <4>3. lapsed' \in BOOLEAN
        BY <4>1
      <4>4. QED BY <3>2, <4>1, <4>2, <4>3
    <3>3. QED BY <1>29, <3>1, <3>2 DEF Lapse
  <2>2. QED BY <1>29, <2>1 DEF Lapse
<1>30. CASE UNCHANGED vars
  BY <1>30
<1>31. QED BY <1>1, <1>2, <1>3, <1>4, <1>5, <1>6, <1>7, <1>8, <1>9, <1>10, <1>11, <1>12,
      <1>13, <1>14, <1>15, <1>16, <1>17, <1>18, <1>19, <1>20, <1>21, <1>22, <1>23, <1>24,
      <1>25, <1>26, <1>27, <1>28, <1>29, <1>30 DEF Next, Start, Step

-----------------------------------------------------------------------------
(*****************************************************************************)
(* The lock, the counters and the code.                                     *)
(*****************************************************************************)
\* A call that leaves the lock alone ends without it, or by a fault.
LockAlone(c) ==
  /\ lock' = lock /\ serial' = serial
  /\ "lock" \in abandoned => "lock" \in abandoned'
  /\ kind'[c] = "enroll" =>
       /\ kind[c] = "enroll" /\ arg'[c] = arg[c]
       /\ pc'[c] \in {"incr", "expire", "lock"} => pc[c] \in {"incr", "expire", "lock"}
       /\ pc'[c] = "commit" /\ lock = arg[c] => "lock" \in abandoned'
  /\ kind[c] = "enroll" /\ kind'[c] # "enroll" => lock # arg[c] \/ "lock" \in abandoned'

\* Such a call keeps the invariant of the lock.
LEMMA LockMove ==
  ASSUME TypeOK, LockInv, NEW c \in Calls, Frame(c), LockAlone(c)
  PROVE  LockInv'
<1> USE DEF TypeOK, LockInv, Frame, LockAlone
<1>1. LockFreed'
  BY DEF LockFreed
<1>2. lock' \in 0..serial'
  OBVIOUS
<1>3. ASSUME NEW d \in Calls, NEW e \in Calls, kind'[d] = "enroll", kind'[e] = "enroll",
      arg'[d] = arg'[e]
      PROVE  d = e
  BY <1>3
<1>4. ASSUME NEW d \in Calls, kind'[d] = "enroll"
      PROVE  /\ pc'[d] \in {"incr", "expire", "lock"} => lock' # arg'[d]
             /\ pc'[d] = "commit" /\ lock' = arg'[d] => "lock" \in abandoned'
  BY <1>4
<1>5. QED BY <1>1, <1>2, <1>3, <1>4

\* An enrollment that ends has released its lock, but for a fault.
LEMMA LockStep == AccountInv /\ [Next]_vars => LockInv'
<1> SUFFICES ASSUME TypeOK, CallsInv, LockInv, [Next]_vars PROVE LockInv'
  BY DEF AccountInv
<1> USE DEF TypeOK
<1>1. ASSUME NEW c \in Calls, BeginRegister(c) PROVE LockInv'
  <2>1. kind[c] = "none"
    BY <1>1 DEF BeginRegister, Begin, CallsInv, CallOk
  <2>2. \A d \in Calls : kind[d] = "enroll" => d # c /\ kind'[d] = "enroll" /\ arg'[d] = arg[d] /\ pc'[d] = pc[d]
    BY <1>1, <2>1 DEF BeginRegister, Begin
  <2>3. kind'[c] = "enroll" => arg'[c] = serial + 1 /\ pc'[c] = "incr"
    BY <1>1 DEF BeginRegister, Begin
  <2>4. \A d \in Calls : kind'[d] = "enroll" => d = c \/ kind[d] = "enroll"
    BY <1>1 DEF BeginRegister, Begin
  <2>5. lock' = lock /\ serial' = serial + 1 /\ abandoned' = abandoned
    BY <1>1 DEF BeginRegister, Begin
  <2>6. \A d \in Calls : kind[d] = "enroll" => arg[d] \in 1..serial
    BY DEF CallsInv, CallOk
  <2>7. LockFreed'
    BY <2>2, <2>5 DEF LockInv, LockFreed
  <2>8. QED BY <2>2, <2>3, <2>4, <2>5, <2>6, <2>7 DEF LockInv
<1>2. ASSUME NEW c \in Calls, BeginResend(c) PROVE LockInv'
  <2>1. kind[c] = "none"
    BY <1>2 DEF BeginResend, Begin, CallsInv, CallOk
  <2>2. \A d \in Calls : kind[d] = "enroll" => d # c /\ kind'[d] = "enroll" /\ arg'[d] = arg[d] /\ pc'[d] = pc[d]
    BY <1>2, <2>1 DEF BeginResend, Begin
  <2>3. kind'[c] = "enroll" => arg'[c] = serial + 1 /\ pc'[c] = "incr"
    BY <1>2 DEF BeginResend, Begin
  <2>4. \A d \in Calls : kind'[d] = "enroll" => d = c \/ kind[d] = "enroll"
    BY <1>2 DEF BeginResend, Begin
  <2>5. lock' = lock /\ serial' = serial + 1 /\ abandoned' = abandoned
    BY <1>2 DEF BeginResend, Begin
  <2>6. \A d \in Calls : kind[d] = "enroll" => arg[d] \in 1..serial
    BY DEF CallsInv, CallOk
  <2>7. LockFreed'
    BY <2>2, <2>5 DEF LockInv, LockFreed
  <2>8. QED BY <2>2, <2>3, <2>4, <2>5, <2>6, <2>7 DEF LockInv
<1>3. ASSUME NEW c \in Calls, BeginVerify(c) PROVE LockInv'
  <2>1. kind[c] = "none"
    BY <1>3 DEF BeginVerify, Begin, CallsInv, CallOk
  <2>2. \A d \in Calls : kind[d] = "enroll" => d # c /\ kind'[d] = "enroll" /\ arg'[d] = arg[d] /\ pc'[d] = pc[d]
    BY <1>3, <2>1 DEF BeginVerify, Begin
  <2>3. kind'[c] = "enroll" => arg'[c] = serial + 1 /\ pc'[c] = "incr"
    BY <1>3 DEF BeginVerify, Begin
  <2>4. \A d \in Calls : kind'[d] = "enroll" => d = c \/ kind[d] = "enroll"
    BY <1>3 DEF BeginVerify, Begin
  <2>5. lock' = lock /\ serial' = serial + 1 /\ abandoned' = abandoned
    BY <1>3 DEF BeginVerify, Begin
  <2>6. \A d \in Calls : kind[d] = "enroll" => arg[d] \in 1..serial
    BY DEF CallsInv, CallOk
  <2>7. LockFreed'
    BY <2>2, <2>5 DEF LockInv, LockFreed
  <2>8. QED BY <2>2, <2>3, <2>4, <2>5, <2>6, <2>7 DEF LockInv
<1>4. ASSUME NEW c \in Calls, BeginStaff(c) PROVE LockInv'
  <2>1. kind[c] = "none"
    BY <1>4 DEF BeginStaff, Begin, CallsInv, CallOk
  <2>2. \A d \in Calls : kind[d] = "enroll" => d # c /\ kind'[d] = "enroll" /\ arg'[d] = arg[d] /\ pc'[d] = pc[d]
    BY <1>4, <2>1 DEF BeginStaff, Begin
  <2>3. kind'[c] = "enroll" => arg'[c] = serial + 1 /\ pc'[c] = "incr"
    BY <1>4 DEF BeginStaff, Begin
  <2>4. \A d \in Calls : kind'[d] = "enroll" => d = c \/ kind[d] = "enroll"
    BY <1>4 DEF BeginStaff, Begin
  <2>5. lock' = lock /\ serial' = serial + 1 /\ abandoned' = abandoned
    BY <1>4 DEF BeginStaff, Begin
  <2>6. \A d \in Calls : kind[d] = "enroll" => arg[d] \in 1..serial
    BY DEF CallsInv, CallOk
  <2>7. LockFreed'
    BY <2>2, <2>5 DEF LockInv, LockFreed
  <2>8. QED BY <2>2, <2>3, <2>4, <2>5, <2>6, <2>7 DEF LockInv
<1>5. ASSUME NEW c \in Calls, BeginEnroll(c) PROVE LockInv'
  <2>1. kind[c] = "none"
    BY <1>5 DEF BeginEnroll, Begin, CallsInv, CallOk
  <2>2. \A d \in Calls : kind[d] = "enroll" => d # c /\ kind'[d] = "enroll" /\ arg'[d] = arg[d] /\ pc'[d] = pc[d]
    BY <1>5, <2>1 DEF BeginEnroll, Begin
  <2>3. kind'[c] = "enroll" => arg'[c] = serial + 1 /\ pc'[c] = "incr"
    BY <1>5 DEF BeginEnroll, Begin
  <2>4. \A d \in Calls : kind'[d] = "enroll" => d = c \/ kind[d] = "enroll"
    BY <1>5 DEF BeginEnroll, Begin
  <2>5. lock' = lock /\ serial' = serial + 1 /\ abandoned' = abandoned
    BY <1>5 DEF BeginEnroll, Begin
  <2>6. \A d \in Calls : kind[d] = "enroll" => arg[d] \in 1..serial
    BY DEF CallsInv, CallOk
  <2>7. LockFreed'
    BY <2>2, <2>5 DEF LockInv, LockFreed
  <2>8. QED BY <2>2, <2>3, <2>4, <2>5, <2>6, <2>7 DEF LockInv
<1>6. ASSUME NEW c \in Calls, Incr(c) PROVE LockInv'
  <2>1. LockAlone(c)
    BY <1>6 DEF Incr, StartsWindow, Admitted, Key, Goto, End, LockAlone, CallsInv, CallOk,
       LockInv
  <2>2. QED BY <1>6, <2>1, FrameOfMove, LockMove DEF CallMoves, Step
<1>7. ASSUME NEW c \in Calls, Expire(c) PROVE LockInv'
  <2>1. LockAlone(c)
    BY <1>7 DEF Expire, Admitted, Key, Goto, LockAlone, CallsInv, CallOk, LockInv
  <2>2. QED BY <1>7, <2>1, FrameOfMove, LockMove DEF CallMoves, Step
<1>8. ASSUME NEW c \in Calls, LookUp(c) PROVE LockInv'
  <2>1. LockAlone(c)
    BY <1>8 DEF LookUp, Goto, End, LockAlone, CallsInv, CallOk, LockInv
  <2>2. QED BY <1>8, <2>1, FrameOfMove, LockMove DEF CallMoves, Step
<1>9. ASSUME NEW c \in Calls, SetPending(c) PROVE LockInv'
  <2>1. LockAlone(c)
    BY <1>9 DEF SetPending, Overwritten, Goto, LockAlone, CallsInv, CallOk, LockInv
  <2>2. QED BY <1>9, <2>1, FrameOfMove, LockMove DEF CallMoves, Step
<1>10. ASSUME NEW c \in Calls, FindPending(c) PROVE LockInv'
  <2>1. LockAlone(c)
    BY <1>10 DEF FindPending, Goto, End, LockAlone, CallsInv, CallOk, LockInv
  <2>2. QED BY <1>10, <2>1, FrameOfMove, LockMove DEF CallMoves, Step
<1>11. ASSUME NEW c \in Calls, SetOtp(c) PROVE LockInv'
  <2>1. LockAlone(c)
    BY <1>11 DEF SetOtp, LockAlone, CallsInv, CallOk, LockInv
  <2>2. QED BY <1>11, <2>1, FrameOfMove, LockMove DEF CallMoves, Step
<1>12. ASSUME NEW c \in Calls, Publish(c) PROVE LockInv'
  <2>1. LockAlone(c)
    BY <1>12 DEF Publish, End, LockAlone, CallsInv, CallOk, LockInv
  <2>2. QED BY <1>12, <2>1, FrameOfMove, LockMove DEF CallMoves, Step
<1>13. ASSUME NEW c \in Calls, ReadOtp(c) PROVE LockInv'
  <2>1. LockAlone(c)
    BY <1>13 DEF ReadOtp, CodeAfterRead, Goto, End, LockAlone, CallsInv, CallOk, LockInv
  <2>2. QED BY <1>13, <2>1, FrameOfMove, LockMove DEF CallMoves, Step
<1>14. ASSUME NEW c \in Calls, ReadPending(c) PROVE LockInv'
  <2>1. LockAlone(c)
    BY <1>14 DEF ReadPending, End, LockAlone, CallsInv, CallOk, LockInv
  <2>2. QED BY <1>14, <2>1, FrameOfMove, LockMove DEF CallMoves, Step
<1>15. ASSUME NEW c \in Calls, InsertUser(c) PROVE LockInv'
  <2>1. LockAlone(c)
    BY <1>15 DEF InsertUser, End, LockAlone, CallsInv, CallOk, LockInv
  <2>2. QED BY <1>15, <2>1, FrameOfMove, LockMove DEF CallMoves, Step
<1>16. ASSUME NEW c \in Calls, DeleteOtp(c) PROVE LockInv'
  <2>1. LockAlone(c)
    BY <1>16 DEF DeleteOtp, Goto, LockAlone, CallsInv, CallOk, LockInv
  <2>2. QED BY <1>16, <2>1, FrameOfMove, LockMove DEF CallMoves, Step
<1>17. ASSUME NEW c \in Calls, DeletePending(c) PROVE LockInv'
  <2>1. LockAlone(c)
    BY <1>17 DEF DeletePending, Goto, LockAlone, CallsInv, CallOk, LockInv
  <2>2. QED BY <1>17, <2>1, FrameOfMove, LockMove DEF CallMoves, Step
<1>18. ASSUME NEW c \in Calls, TakeLock(c) PROVE LockInv'
  <2>1. kind[c] = "enroll" /\ arg[c] \in 1..serial /\ pc[c] = "lock"
    BY <1>18 DEF TakeLock, CallsInv, CallOk
  <2>2. CASE End(c) /\ UNCHANGED <<lock, abandoned>>
    <3>1. UNCHANGED serial
      BY <1>18 DEF TakeLock
    <3>2. LockAlone(c)
      BY <2>1, <2>2, <3>1 DEF End, LockAlone, CallsInv, CallOk, LockInv
    <3>3. QED BY <1>18, <3>2, FrameOfMove, LockMove DEF CallMoves, Step
  <2>3. CASE lock = 0 /\ lock' = arg[c] /\ abandoned' = abandoned \ {"lock"} /\ Goto(c, "readUser")
    <3>1. UNCHANGED <<kind, arg, serial>> /\ pc'[c] = "readUser"
      BY <1>18, <2>3 DEF TakeLock, Goto
    <3>2. \A d \in Calls : d # c => pc'[d] = pc[d]
      BY <2>3 DEF Goto
    <3>3. \A d \in Calls : kind[d] = "enroll" /\ d # c => arg[d] # lock'
      BY <2>1, <2>3 DEF LockInv
    <3>4. LockFreed'
      BY <2>1, <2>3, <3>1 DEF LockFreed
    <3>5. lock' \in 0..serial'
      BY <2>1, <2>3, <3>1
    <3>6. QED BY <2>3, <3>1, <3>2, <3>3, <3>4, <3>5 DEF LockInv
  <2>4. QED BY <1>18, <2>2, <2>3 DEF TakeLock
<1>19. ASSUME NEW c \in Calls, ReadUser(c) PROVE LockInv'
  <2>1. LockAlone(c)
    BY <1>19 DEF ReadUser, Goto, LockAlone, CallsInv, CallOk, LockInv
  <2>2. QED BY <1>19, <2>1, FrameOfMove, LockMove DEF CallMoves, Step
<1>20. ASSUME NEW c \in Calls, Compute(c) PROVE LockInv'
  <2>1. LockAlone(c)
    BY <1>20 DEF Compute, Goto, LockAlone, CallsInv, CallOk, LockInv
  <2>2. QED BY <1>20, <2>1, FrameOfMove, LockMove DEF CallMoves, Step
<1>21. ASSUME NEW c \in Calls, SetEmbedding(c) PROVE LockInv'
  <2>1. LockAlone(c)
    BY <1>21 DEF SetEmbedding, StillFaceless, LockAlone, CallsInv, CallOk, LockInv
  <2>2. QED BY <1>21, <2>1, FrameOfMove, LockMove DEF CallMoves, Step
<1>22. ASSUME NEW c \in Calls, Compare(c) PROVE LockInv'
  <2>1. LockAlone(c)
    BY <1>22 DEF Compare, Releases, AfterRelease, Goto, End, LockAlone, CallsInv, CallOk,
       LockInv
  <2>2. QED BY <1>22, <2>1, FrameOfMove, LockMove DEF CallMoves, Step
<1>23. ASSUME NEW c \in Calls, Unlock(c) PROVE LockInv'
  BY <1>23 DEF Unlock, AfterRelease, Goto, End, LockInv, LockFreed, CallsInv, CallOk
<1>24. ASSUME NEW c \in Calls, Commit(c) PROVE LockInv'
  <2>1. LockAlone(c)
    BY <1>24 DEF Commit, End, LockAlone, CallsInv, CallOk, LockInv
  <2>2. QED BY <1>24, <2>1, FrameOfMove, LockMove DEF CallMoves, Step
<1>25. ASSUME NEW c \in Calls, FailOpen(c) PROVE LockInv'
  <2>1. LockAlone(c)
    BY <1>25 DEF FailOpen, Admitted, Immortal, Key, Goto, LockAlone, CallsInv, CallOk,
       LockInv
  <2>2. QED BY <1>25, <2>1, FrameOfMove, LockMove DEF CallMoves
<1>26. ASSUME NEW c \in Calls, LockFailsOpen(c) PROVE LockInv'
  BY <1>26 DEF LockFailsOpen, Goto, LockInv, LockFreed, CallsInv, CallOk
<1>27. ASSUME NEW c \in Calls, Fault(c) PROVE LockInv'
  <2>1. CASE lock' = lock
    <3>1. LockAlone(c)
      <4> USE <1>27, <2>1 DEF Fault, LockAlone
      <4>1. CASE pc[c] \in {"readUser", "compute", "forUpdate"}
        BY <4>1 DEF Goto
      <4>2. CASE pc[c] \in {"release", "unlock"}
        <5>1. CASE End(c)
          BY <4>2, <5>1 DEF End
        <5>2. CASE Goto(c, "commit")
          BY <4>2, <5>2 DEF Goto
        <5>3. QED BY <4>2, <5>1, <5>2 DEF AfterRelease
      <4>3. CASE pc[c] \notin {"readUser", "compute", "forUpdate", "release", "unlock"}
        <5>1. kind[c] = "enroll" => pc[c] = "commit"
          BY <4>3 DEF CallsInv, CallOk
        <5>2. End(c)
          BY <4>3
        <5>3. UNCHANGED <<lock, abandoned, serial>>
          BY <4>3
        <5>4. kind'[c] = "none"
          BY <5>2 DEF End
        <5>5. QED BY <5>1, <5>3, <5>4 DEF LockInv
      <4>4. QED BY <4>1, <4>2, <4>3
    <3>2. QED BY <1>27, <3>1, FrameOfMove, LockMove DEF CallMoves
  <2>2. CASE lock' # lock
    <3>1. lock' = 0 /\ serial' = serial /\ Frame(c)
      BY <1>27, <2>2, FrameOfMove DEF Fault, CallMoves
    <3>2. /\ kind'[c] = "enroll" => kind[c] = "enroll" /\ arg'[c] = arg[c]
          /\ pc'[c] \in {"idle", "commit"} /\ (pc'[c] = "idle" => kind'[c] = "none")
      BY <1>27, <2>2 DEF Fault, HasUsed, Lost, Overwritten, AfterRelease, Goto, End
    <3>3. \A d \in Calls : kind[d] = "enroll" => arg[d] # 0
      BY DEF CallsInv, CallOk
    <3>4. QED BY <3>1, <3>2, <3>3 DEF LockInv, LockFreed, Frame
  <2>3. QED BY <2>1, <2>2
<1>28. ASSUME NEW c \in Calls, Die(c) PROVE LockInv'
  <2>1. LockAlone(c)
    BY <1>28 DEF Die, HasUsed, Lost, Key, End, LockAlone, CallsInv, CallOk, LockInv
  <2>2. QED BY <1>28, <2>1, FrameOfMove, LockMove DEF CallMoves
<1>29. CASE Lapse
  BY <1>29 DEF Lapse, LockInv, LockFreed, CallsInv, CallOk
<1>30. CASE UNCHANGED vars
  BY <1>30 DEF LockInv, LockFreed
<1>31. QED BY <1>1, <1>2, <1>3, <1>4, <1>5, <1>6, <1>7, <1>8, <1>9, <1>10, <1>11, <1>12,
      <1>13, <1>14, <1>15, <1>16, <1>17, <1>18, <1>19, <1>20, <1>21, <1>22, <1>23, <1>24,
      <1>25, <1>26, <1>27, <1>28, <1>29, <1>30 DEF Next, Start, Step

\* A call that has no counter to give a TTL to leaves the counters alone.
LEMMA CounterMove ==
  ASSUME TypeOK, CounterExpires, NEW c \in Calls, Frame(c), pc[c] # "expire",
         counters' = counters, abandoned \cap Counters \subseteq abandoned'
  PROVE  CounterExpires'
BY DEF CounterExpires, Frame, Key, Immortal

\* A counter is given its TTL by the call that started it, but for a fault.
LEMMA CounterStep == AccountInv /\ [Next]_vars => CounterExpires'
<1> SUFFICES ASSUME TypeOK, CounterExpires, [Next]_vars PROVE CounterExpires'
  BY DEF AccountInv
<1> USE DEF TypeOK
<1>1. ASSUME NEW c \in Calls, BeginRegister(c) PROVE CounterExpires'
  <2>1. pc[c] # "expire" /\ counters' = counters /\ abandoned \cap Counters \subseteq abandoned'
    BY <1>1 DEF BeginRegister, Begin, Counters
  <2>2. QED BY <1>1, <2>1, FrameOfMove, CounterMove DEF CallMoves, Start
<1>2. ASSUME NEW c \in Calls, BeginResend(c) PROVE CounterExpires'
  <2>1. pc[c] # "expire" /\ counters' = counters /\ abandoned \cap Counters \subseteq abandoned'
    BY <1>2 DEF BeginResend, Begin, Counters
  <2>2. QED BY <1>2, <2>1, FrameOfMove, CounterMove DEF CallMoves, Start
<1>3. ASSUME NEW c \in Calls, BeginVerify(c) PROVE CounterExpires'
  <2>1. pc[c] # "expire" /\ counters' = counters /\ abandoned \cap Counters \subseteq abandoned'
    BY <1>3 DEF BeginVerify, Begin, Counters
  <2>2. QED BY <1>3, <2>1, FrameOfMove, CounterMove DEF CallMoves, Start
<1>4. ASSUME NEW c \in Calls, BeginStaff(c) PROVE CounterExpires'
  <2>1. pc[c] # "expire" /\ counters' = counters /\ abandoned \cap Counters \subseteq abandoned'
    BY <1>4 DEF BeginStaff, Begin, Counters
  <2>2. QED BY <1>4, <2>1, FrameOfMove, CounterMove DEF CallMoves, Start
<1>5. ASSUME NEW c \in Calls, BeginEnroll(c) PROVE CounterExpires'
  <2>1. pc[c] # "expire" /\ counters' = counters /\ abandoned \cap Counters \subseteq abandoned'
    BY <1>5 DEF BeginEnroll, Begin, Counters
  <2>2. QED BY <1>5, <2>1, FrameOfMove, CounterMove DEF CallMoves, Start
<1>6. ASSUME NEW c \in Calls, Incr(c) PROVE CounterExpires'
  BY <1>6 DEF CounterExpires, Counters, Incr, StartsWindow, Admitted, Key, Goto, End,
     Immortal
<1>7. ASSUME NEW c \in Calls, Expire(c) PROVE CounterExpires'
  <2>1. counters'[Key(c)].expires = (counters[Key(c)].count > 0)
    BY <1>7 DEF Expire, Counters, Key
  <2>2. counters'[Key(c)].count = counters[Key(c)].count
    BY <1>7 DEF Expire, Counters, Key
  <2>3. \A k \in Counters \ {Key(c)} : counters'[k] = counters[k]
    BY <1>7 DEF Expire, Counters
  <2>4. \A k \in Counters : k # Key(c) /\ k \notin abandoned' => k \notin abandoned
    BY <1>7 DEF Expire
  <2>5. \A d \in Calls \ {c} : pc'[d] = pc[d] /\ kind'[d] = kind[d]
    BY <1>7 DEF Expire, Goto
  <2>6. kind' = kind
    BY <1>7 DEF Expire, Goto
  <2>7. pc[c] = "expire"
    BY <1>7 DEF Expire
  <2>8. SUFFICES ASSUME NEW k \in Counters, k \notin abandoned', Immortal(counters'[k])
                 PROVE  \E d \in Calls : pc'[d] = "expire" /\ Key(d)' = k
    BY DEF CounterExpires, Immortal, Key
  <2>9. k # Key(c)
    BY <2>1, <2>2, <2>8 DEF Immortal
  <2>10. PICK d \in Calls : pc[d] = "expire" /\ Key(d) = k
    BY <2>3, <2>4, <2>8, <2>9 DEF CounterExpires, Immortal
  <2>11. QED BY <2>5, <2>6, <2>9, <2>10 DEF Key
<1>8. ASSUME NEW c \in Calls, LookUp(c) PROVE CounterExpires'
  <2>1. pc[c] # "expire" /\ counters' = counters /\ abandoned \cap Counters \subseteq abandoned'
    BY <1>8 DEF LookUp, Goto, End, Counters
  <2>2. QED BY <1>8, <2>1, FrameOfMove, CounterMove DEF CallMoves, Step
<1>9. ASSUME NEW c \in Calls, SetPending(c) PROVE CounterExpires'
  <2>1. pc[c] # "expire" /\ counters' = counters /\ abandoned \cap Counters \subseteq abandoned'
    BY <1>9 DEF SetPending, Overwritten, Goto, Counters
  <2>2. QED BY <1>9, <2>1, FrameOfMove, CounterMove DEF CallMoves, Step
<1>10. ASSUME NEW c \in Calls, FindPending(c) PROVE CounterExpires'
  <2>1. pc[c] # "expire" /\ counters' = counters /\ abandoned \cap Counters \subseteq abandoned'
    BY <1>10 DEF FindPending, Goto, End, Counters
  <2>2. QED BY <1>10, <2>1, FrameOfMove, CounterMove DEF CallMoves, Step
<1>11. ASSUME NEW c \in Calls, SetOtp(c) PROVE CounterExpires'
  <2>1. pc[c] # "expire" /\ counters' = counters /\ abandoned \cap Counters \subseteq abandoned'
    BY <1>11 DEF SetOtp, Counters
  <2>2. QED BY <1>11, <2>1, FrameOfMove, CounterMove DEF CallMoves, Step
<1>12. ASSUME NEW c \in Calls, Publish(c) PROVE CounterExpires'
  <2>1. pc[c] # "expire" /\ counters' = counters /\ abandoned \cap Counters \subseteq abandoned'
    BY <1>12 DEF Publish, End, Counters
  <2>2. QED BY <1>12, <2>1, FrameOfMove, CounterMove DEF CallMoves, Step
<1>13. ASSUME NEW c \in Calls, ReadOtp(c) PROVE CounterExpires'
  <2>1. pc[c] # "expire" /\ counters' = counters /\ abandoned \cap Counters \subseteq abandoned'
    BY <1>13 DEF ReadOtp, CodeAfterRead, Goto, End, Counters
  <2>2. QED BY <1>13, <2>1, FrameOfMove, CounterMove DEF CallMoves, Step
<1>14. ASSUME NEW c \in Calls, ReadPending(c) PROVE CounterExpires'
  <2>1. pc[c] # "expire" /\ counters' = counters /\ abandoned \cap Counters \subseteq abandoned'
    BY <1>14 DEF ReadPending, End, Counters
  <2>2. QED BY <1>14, <2>1, FrameOfMove, CounterMove DEF CallMoves, Step
<1>15. ASSUME NEW c \in Calls, InsertUser(c) PROVE CounterExpires'
  <2>1. pc[c] # "expire" /\ counters' = counters /\ abandoned \cap Counters \subseteq abandoned'
    BY <1>15 DEF InsertUser, End, Counters
  <2>2. QED BY <1>15, <2>1, FrameOfMove, CounterMove DEF CallMoves, Step
<1>16. ASSUME NEW c \in Calls, DeleteOtp(c) PROVE CounterExpires'
  <2>1. pc[c] # "expire" /\ counters' = counters /\ abandoned \cap Counters \subseteq abandoned'
    BY <1>16 DEF DeleteOtp, Goto, Counters
  <2>2. QED BY <1>16, <2>1, FrameOfMove, CounterMove DEF CallMoves, Step
<1>17. ASSUME NEW c \in Calls, DeletePending(c) PROVE CounterExpires'
  <2>1. pc[c] # "expire" /\ counters' = counters /\ abandoned \cap Counters \subseteq abandoned'
    BY <1>17 DEF DeletePending, Goto, Counters
  <2>2. QED BY <1>17, <2>1, FrameOfMove, CounterMove DEF CallMoves, Step
<1>18. ASSUME NEW c \in Calls, TakeLock(c) PROVE CounterExpires'
  <2>1. pc[c] # "expire" /\ counters' = counters /\ abandoned \cap Counters \subseteq abandoned'
    BY <1>18 DEF TakeLock, Goto, End, Counters
  <2>2. QED BY <1>18, <2>1, FrameOfMove, CounterMove DEF CallMoves, Step
<1>19. ASSUME NEW c \in Calls, ReadUser(c) PROVE CounterExpires'
  <2>1. pc[c] # "expire" /\ counters' = counters /\ abandoned \cap Counters \subseteq abandoned'
    BY <1>19 DEF ReadUser, Goto, Counters
  <2>2. QED BY <1>19, <2>1, FrameOfMove, CounterMove DEF CallMoves, Step
<1>20. ASSUME NEW c \in Calls, Compute(c) PROVE CounterExpires'
  <2>1. pc[c] # "expire" /\ counters' = counters /\ abandoned \cap Counters \subseteq abandoned'
    BY <1>20 DEF Compute, Goto, Counters
  <2>2. QED BY <1>20, <2>1, FrameOfMove, CounterMove DEF CallMoves, Step
<1>21. ASSUME NEW c \in Calls, SetEmbedding(c) PROVE CounterExpires'
  <2>1. pc[c] # "expire" /\ counters' = counters /\ abandoned \cap Counters \subseteq abandoned'
    BY <1>21 DEF SetEmbedding, StillFaceless, Counters
  <2>2. QED BY <1>21, <2>1, FrameOfMove, CounterMove DEF CallMoves, Step
<1>22. ASSUME NEW c \in Calls, Compare(c) PROVE CounterExpires'
  <2>1. pc[c] # "expire" /\ counters' = counters /\ abandoned \cap Counters \subseteq abandoned'
    BY <1>22 DEF Compare, Releases, AfterRelease, Goto, End, Counters
  <2>2. QED BY <1>22, <2>1, FrameOfMove, CounterMove DEF CallMoves, Step
<1>23. ASSUME NEW c \in Calls, Unlock(c) PROVE CounterExpires'
  <2>1. pc[c] # "expire" /\ counters' = counters /\ abandoned \cap Counters \subseteq abandoned'
    BY <1>23 DEF Unlock, AfterRelease, Goto, End, Counters
  <2>2. QED BY <1>23, <2>1, FrameOfMove, CounterMove DEF CallMoves, Step
<1>24. ASSUME NEW c \in Calls, Commit(c) PROVE CounterExpires'
  <2>1. pc[c] # "expire" /\ counters' = counters /\ abandoned \cap Counters \subseteq abandoned'
    BY <1>24 DEF Commit, End, Counters
  <2>2. QED BY <1>24, <2>1, FrameOfMove, CounterMove DEF CallMoves, Step
<1>25. ASSUME NEW c \in Calls, FailOpen(c) PROVE CounterExpires'
  BY <1>25 DEF CounterExpires, Counters, FailOpen, Admitted, Key, Goto, Immortal
<1>26. ASSUME NEW c \in Calls, LockFailsOpen(c) PROVE CounterExpires'
  <2>1. pc[c] # "expire" /\ counters' = counters /\ abandoned \cap Counters \subseteq abandoned'
    BY <1>26 DEF LockFailsOpen, Goto, Counters
  <2>2. QED BY <1>26, <2>1, FrameOfMove, CounterMove DEF CallMoves
<1>27. ASSUME NEW c \in Calls, Fault(c) PROVE CounterExpires'
  <2>1. pc[c] # "expire" /\ counters' = counters /\ abandoned \cap Counters \subseteq abandoned'
    BY <1>27 DEF Fault, HasUsed, Lost, Overwritten, AfterRelease, Goto, End, Counters
  <2>2. QED BY <1>27, <2>1, FrameOfMove, CounterMove DEF CallMoves
<1>28. ASSUME NEW c \in Calls, Die(c) PROVE CounterExpires'
  BY <1>28 DEF CounterExpires, Counters, Die, Key, End, Immortal
<1>29. CASE Lapse
  BY <1>29 DEF Lapse, CounterExpires, Immortal, Key, Counters
<1>30. CASE UNCHANGED vars
  BY <1>30 DEF CounterExpires, Immortal, Key
<1>31. QED BY <1>1, <1>2, <1>3, <1>4, <1>5, <1>6, <1>7, <1>8, <1>9, <1>10, <1>11, <1>12,
      <1>13, <1>14, <1>15, <1>16, <1>17, <1>18, <1>19, <1>20, <1>21, <1>22, <1>23, <1>24,
      <1>25, <1>26, <1>27, <1>28, <1>29, <1>30 DEF Next, Start, Step

\* The newest code goes with the account it has confirmed, or lapses.
LEMMA CodeStep == AccountInv /\ [Next]_vars => CodeInv'
<1> SUFFICES ASSUME TypeOK, CallsInv, CodeInv, [Next]_vars PROVE CodeInv'
  BY DEF AccountInv
<1> USE DEF TypeOK, CallsInv, CallOk, CodeInv, HasUsed
<1>1. ASSUME NEW c \in Calls, BeginRegister(c) PROVE CodeInv'
  BY <1>1 DEF BeginRegister, Begin
<1>2. ASSUME NEW c \in Calls, BeginResend(c) PROVE CodeInv'
  BY <1>2 DEF BeginResend, Begin
<1>3. ASSUME NEW c \in Calls, BeginVerify(c) PROVE CodeInv'
  BY <1>3 DEF BeginVerify, Begin
<1>4. ASSUME NEW c \in Calls, BeginStaff(c) PROVE CodeInv'
  BY <1>4 DEF BeginStaff, Begin
<1>5. ASSUME NEW c \in Calls, BeginEnroll(c) PROVE CodeInv'
  BY <1>5 DEF BeginEnroll, Begin
<1>6. ASSUME NEW c \in Calls, Incr(c) PROVE CodeInv'
  BY <1>6 DEF Incr, StartsWindow, Admitted, Key, Goto, End
<1>7. ASSUME NEW c \in Calls, Expire(c) PROVE CodeInv'
  BY <1>7 DEF Expire, Admitted, Key, Goto
<1>8. ASSUME NEW c \in Calls, LookUp(c) PROVE CodeInv'
  BY <1>8 DEF LookUp, Goto, End
<1>9. ASSUME NEW c \in Calls, SetPending(c) PROVE CodeInv'
  BY <1>9 DEF SetPending, Overwritten, Goto
<1>10. ASSUME NEW c \in Calls, FindPending(c) PROVE CodeInv'
  BY <1>10 DEF FindPending, Goto, End
<1>11. ASSUME NEW c \in Calls, SetOtp(c) PROVE CodeInv'
  BY <1>11 DEF SetOtp
<1>12. ASSUME NEW c \in Calls, Publish(c) PROVE CodeInv'
  BY <1>12 DEF Publish, End
<1>13. ASSUME NEW c \in Calls, ReadOtp(c) PROVE CodeInv'
  BY <1>13 DEF ReadOtp, CodeAfterRead, Goto, End
<1>14. ASSUME NEW c \in Calls, ReadPending(c) PROVE CodeInv'
  BY <1>14 DEF ReadPending, End
<1>15. ASSUME NEW c \in Calls, InsertUser(c) PROVE CodeInv'
  BY <1>15 DEF InsertUser, End
<1>16. ASSUME NEW c \in Calls, DeleteOtp(c) PROVE CodeInv'
  BY <1>16 DEF DeleteOtp, Goto
<1>17. ASSUME NEW c \in Calls, DeletePending(c) PROVE CodeInv'
  BY <1>17 DEF DeletePending, Goto
<1>18. ASSUME NEW c \in Calls, TakeLock(c) PROVE CodeInv'
  BY <1>18 DEF TakeLock, Goto, End
<1>19. ASSUME NEW c \in Calls, ReadUser(c) PROVE CodeInv'
  BY <1>19 DEF ReadUser, Goto
<1>20. ASSUME NEW c \in Calls, Compute(c) PROVE CodeInv'
  BY <1>20 DEF Compute, Goto
<1>21. ASSUME NEW c \in Calls, SetEmbedding(c) PROVE CodeInv'
  BY <1>21 DEF SetEmbedding, StillFaceless
<1>22. ASSUME NEW c \in Calls, Compare(c) PROVE CodeInv'
  BY <1>22 DEF Compare, Releases, AfterRelease, Goto, End
<1>23. ASSUME NEW c \in Calls, Unlock(c) PROVE CodeInv'
  BY <1>23 DEF Unlock, AfterRelease, Goto, End
<1>24. ASSUME NEW c \in Calls, Commit(c) PROVE CodeInv'
  BY <1>24 DEF Commit, End
<1>25. ASSUME NEW c \in Calls, FailOpen(c) PROVE CodeInv'
  BY <1>25 DEF FailOpen, Admitted, Immortal, Key, Goto
<1>26. ASSUME NEW c \in Calls, LockFailsOpen(c) PROVE CodeInv'
  BY <1>26 DEF LockFailsOpen, Goto
<1>27. ASSUME NEW c \in Calls, Fault(c) PROVE CodeInv'
  <2>1. /\ UNCHANGED <<password, codes, issued>>
        /\ overwritten' = Overwritten
        /\ lapsed' = (lapsed \/ (Lost /\ (HasUsed(c) \/ otp' # otp)))
    BY <1>27 DEF Fault
  <2>2. otp' \in {0, otp}
    BY <1>27 DEF Fault
  <2>3. pending' = pending \/ pc[c] \in {"setPending", "deletePending"}
    BY <1>27 DEF Fault
  <2>4. pc[c] = "setPending" => pending' \in {pending, arg[c]} /\ arg[c] # 0
    BY <1>27 DEF Fault
  <2>5. \A d \in Calls : d # c => kind'[d] = kind[d] /\ pc'[d] = pc[d]
    BY <1>27, FrameOfMove DEF CallMoves, Frame
  <2>6. pc[c] = "deletePending" => HasUsed(c)
    OBVIOUS
  <2>7. ASSUME ~lapsed' PROVE issued' # 0 /\ ~lapsed
    BY <2>1, <2>7
  <2>8. ASSUME ~lapsed', issued' \notin overwritten', Lost
        PROVE  password' # 0 \/ \E d \in Calls : HasUsed(d)'
    <3>1. ~HasUsed(c) /\ otp' = otp /\ ~lapsed
      BY <2>1, <2>8
    <3>2. issued \notin overwritten /\ issued # 0
      BY <2>1, <2>7, <2>8 DEF Overwritten
    <3>3. pending = issued => pending' = issued
      BY <2>1, <2>3, <2>4, <2>6, <2>8, <3>1, <3>2 DEF Overwritten
    <3>4. ~(otp = codes /\ pending = issued)
      BY <2>1, <2>8, <3>1, <3>3 DEF Lost
    <3>5. password # 0 \/ \E d \in Calls : HasUsed(d)
      BY <3>1, <3>2, <3>4
    <3>6. QED BY <2>1, <2>5, <3>1, <3>5 DEF HasUsed
  <2>9. QED BY <2>1, <2>2, <2>7, <2>8 DEF Lost
<1>28. ASSUME NEW c \in Calls, Die(c) PROVE CodeInv'
  BY <1>28 DEF Die, HasUsed, Lost, Key, End
<1>29. CASE Lapse
  BY <1>29 DEF Lapse
<1>30. CASE UNCHANGED vars
  BY <1>30
<1>31. QED BY <1>1, <1>2, <1>3, <1>4, <1>5, <1>6, <1>7, <1>8, <1>9, <1>10, <1>11, <1>12,
      <1>13, <1>14, <1>15, <1>16, <1>17, <1>18, <1>19, <1>20, <1>21, <1>22, <1>23, <1>24,
      <1>25, <1>26, <1>27, <1>28, <1>29, <1>30 DEF Next, Start, Step

-----------------------------------------------------------------------------
(*****************************************************************************)
(* The theorems.                                                            *)
(*****************************************************************************)
\* The invariants hold when the service starts.
LEMMA InitInv == Init => AccountInv
<1> SUFFICES ASSUME Init PROVE AccountInv
  OBVIOUS
<1> USE BoundAssumption DEF Init
<1>1. TypeOK
  BY DEF TypeOK, Counters
<1>2. CallsInv
  BY DEF CallsInv, CallOk
<1>3. LockInv
  BY DEF LockInv, LockFreed
<1>4. CounterExpires
  BY DEF CounterExpires, Immortal
<1>5. CodeInv
  BY DEF CodeInv
<1>6. QED BY <1>1, <1>2, <1>3, <1>4, <1>5 DEF AccountInv

\* The inductive invariant.
THEOREM AccountInvariant == Spec => []AccountInv
<1>1. AccountInv /\ [Next]_vars => AccountInv'
  BY TypeStep, CallsStep, LockStep, CounterStep, CodeStep DEF AccountInv
<1>2. QED BY <1>1, InitInv, PTL DEF Spec

\* Every variable keeps its type, and whatever ends a call, no lock and no counter
\* stays behind, but for the faults that Inv names.
THEOREM NothingLeftBehind == Spec => []Inv
<1>1. AccountInv => Inv
  BY DEF AccountInv, LockInv, Inv
<1>2. QED BY <1>1, AccountInvariant, PTL

\* The newest code that was mailed confirms its registration until it lapses or the
\* address has an account.
THEOREM NewestCodeStaysGood == Spec => []CodeStaysGood
<1>1. AccountInv => CodeStaysGood
  BY DEF AccountInv, CodeInv, CodeStaysGood
<1>2. QED BY <1>1, AccountInvariant, PTL

\* No enrollment overwrites a face.
THEOREM FaceIsKept == Spec => FaceKept
<1>1. AccountInv /\ [Next]_vars => [face # 0 => face' = face]_face
  <2> SUFFICES ASSUME AccountInv, [Next]_vars, face # 0 PROVE face' = face
    OBVIOUS
  <2>1. \A c \in Calls : wrote[c] = 0
    BY DEF AccountInv, TypeOK
  <2>2. ASSUME NEW c \in Calls, Commit(c) PROVE face' = face
    BY <2>1, <2>2 DEF Commit
  <2>3. ASSUME NEW c \in Calls, Start(c) PROVE face' = face
    BY <2>3 DEF Start, BeginRegister, BeginResend, BeginVerify, BeginStaff, BeginEnroll,
       Begin
  <2>4. ASSUME NEW c \in Calls, Step(c), ~Commit(c) PROVE face' = face
    BY <2>4 DEF Step, Incr, Expire, LookUp, SetPending, FindPending, SetOtp, Publish,
       ReadOtp, ReadPending,
                InsertUser, DeleteOtp, DeletePending, TakeLock, ReadUser, Compute,
                SetEmbedding, Compare, Unlock
  <2>5. ASSUME NEW c \in Calls, FailOpen(c) \/ LockFailsOpen(c) \/ Fault(c) \/ Die(c)
        PROVE face' = face
    BY <2>5 DEF FailOpen, LockFailsOpen, Fault, Die
  <2>6. CASE Lapse \/ UNCHANGED vars
    BY <2>6 DEF Lapse
  <2>7. QED BY <2>2, <2>3, <2>4, <2>5, <2>6 DEF Next
<1>2. QED BY <1>1, AccountInvariant, PTL DEF Spec, FaceKept

\* The account is made by the commit of one call, which found none, while no other call
\* has inserted one; and it keeps the password it was made with.
MadeOnce ==
  password' # password =>
    /\ password = 0
    /\ \E c \in Calls : Commit(c) /\ password' = added[c] /\ \A o \in Calls \ {c} : added[o] = 0

\* However confirmations of one code, registrations and accounts made by staff overlap,
\* fail and are repeated, the address has one account, which none of them replaces
\* (verify_mobile_register, create_user).
THEOREM AccountIsMadeOnce == Spec => [][MadeOnce]_vars
<1>1. ASSUME AccountInv, Next, password' # password
      PROVE  /\ password = 0
             /\ \E c \in Calls : Commit(c) /\ password' = added[c] /\ \A o \in Calls \ {c} : added[o] = 0
  <2>1. ASSUME NEW c \in Calls, Start(c) PROVE FALSE
    BY <1>1, <2>1 DEF Start, BeginRegister, BeginResend, BeginVerify, BeginStaff, BeginEnroll, Begin
  <2>2. ASSUME NEW c \in Calls, Step(c) PROVE Commit(c)
    BY <1>1, <2>2 DEF Step, Incr, Expire, LookUp, SetPending, FindPending, SetOtp, Publish, ReadOtp,
       ReadPending, InsertUser, DeleteOtp, DeletePending, TakeLock, ReadUser, Compute, SetEmbedding,
       Compare, Unlock
  <2>3. ASSUME NEW c \in Calls, FailOpen(c) \/ LockFailsOpen(c) \/ Fault(c) \/ Die(c) PROVE FALSE
    BY <1>1, <2>3 DEF FailOpen, LockFailsOpen, Fault, Die
  <2>4. ~Lapse
    BY <1>1 DEF Lapse
  <2>5. PICK c \in Calls : Commit(c)
    BY <1>1, <2>1, <2>2, <2>3, <2>4 DEF Next
  <2>6. added[c] # 0 /\ password' = added[c]
    BY <1>1, <2>5 DEF Commit
  <2>7. password = 0 /\ \A o \in Calls \ {c} : added[o] = 0
    BY <1>1, <2>6 DEF AccountInv, TypeOK, CallsInv
  <2>8. QED BY <2>5, <2>6, <2>7
<1>2. AccountInv /\ [Next]_vars => [MadeOnce]_vars
  BY <1>1 DEF MadeOnce
<1>3. QED BY <1>2, AccountInvariant, PTL DEF Spec

=============================================================================
