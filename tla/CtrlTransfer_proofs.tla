------------------------ MODULE CtrlTransfer_proofs ------------------------
(***************************************************************************)
(* Proofs about the control transfers, for every set of threads, block of  *)
(* registers and value, and every combination of faults:                   *)
(*   TypeInv     TypeOK and the headers of the two buffers                 *)
(*   AnswerInv   ErrorsAnswered                                            *)
(*   LockInv     at most one thread between Lock and Unlock, whose command *)
(*               stays in the transmit buffer until it has been compared   *)
(* and, for blocks short enough for the u8 size of the comparison, that    *)
(* the register functions implement RegisterFile. Last, about Headers: the *)
(* words that carry the commands and the data chunks read back as what     *)
(* they were made from.                                                    *)
(***************************************************************************)
EXTENDS CtrlTransfer, Headers, FiniteSetTheorems, TLAPS

-----------------------------------------------------------------------------
(* The parts of the inductive invariant.                                   *)

Header == [op : {"none", "read", "write", "corrupt"}, addr : Nat, length : Nat]

\* Only the receive buffer ever holds a damaged header.
Buffers ==
  /\ tx \in [header : Header, data : [Words -> Values \cup {0}]]
  /\ rx \in [header : Header, data : [Words -> Values \cup {0, Corrupt}]]
  /\ tx.header.op # "corrupt"

\* spi_ctrl_lock is held by the thread that is between Lock and Unlock.
LockHeld ==
  \A c \in Clients : pc[c] \in {"prepare", "transfer", "reply", "unlock"} => holder = c

\* The transmit buffer holds the command of the thread that transfers it.
CommandKept == \A c \in Clients : pc[c] \in {"transfer", "reply"} =>
  /\ tx.header = [op |-> req[c].op, addr |-> req[c].addr, length |-> req[c].length]
  /\ req[c].op = "write" => \A i \in 1..req[c].length : tx.data[i] = req[c].value

\* A value is only there for a read that succeeded and is about to return.
ValueThere ==
  /\ value = [c \in Clients |-> value[c]]
  /\ \A c \in Clients : pc[c] # "unlock" => value[c] = <<>>

\* Nobody that has not begun an access has arguments.
IdleThere ==
  /\ req \in [Clients -> Calls \cup {Idle}]
  /\ \A c \in Clients : pc[c] = "idle" <=> req[c] = Idle

TypeInv == TypeOK /\ Buffers
LockInv == LockHeld /\ CommandKept /\ ValueThere /\ IdleThere

-----------------------------------------------------------------------------
(* Facts about the accesses and the buffers.                               *)

\* An access is let through only if the buffers hold its registers, which
\* then all have an address.
LEMMA AccessFits ==
    ASSUME NEW k \in Calls
    PROVE  /\ k.op \in {"read", "write"} /\ k.value \in Values
           /\ k.addr \in Nat /\ k.length \in Nat /\ k.length > 0
           /\ k.length <= MaxLength
           /\ \A i \in 1..k.length : k.addr + i - 1 \in Addresses /\ i \in Words
  <1>1. /\ k.op \in {"read", "write"} /\ k.value \in Values /\ k.addr \in Starts
        /\ k.length \in Lengths /\ k.length \in 1..OA_TC6_CTRL_MAX_REGISTERS
    BY DEF Calls, Access
  <1>2. k.addr \in Nat /\ k.length \in Nat /\ MaxLength \in Nat
    BY <1>1, AccessAssumption
  <1>3. k.length > 0 /\ k.length <= MaxLength
    BY <1>1, AccessAssumption DEF OA_TC6_CTRL_MAX_REGISTERS
  <1>4. ASSUME NEW i \in 1..k.length
        PROVE  k.addr + i - 1 \in Addresses /\ i \in Words
    <2>1. i - 1 \in 0..MaxLength - 1 /\ i \in Words
      BY <1>2, <1>3 DEF Words
    <2>2. k.addr + (i - 1) \in Addresses
      BY <2>1, <1>1 DEF Addresses
    <2> QED BY <2>1, <2>2, <1>2
  <1> QED BY <1>1, <1>2, <1>3, <1>4

\* What a caller asks for is an access, also after the tool has cut its value.
LEMMA ArgumentFits ==
    ASSUME NEW c \in Clients, NEW k \in Access({n \in Lengths : Legal(n)})
    PROVE  [k EXCEPT !.value = Argument(c, k.value)] \in Calls
  <1>1. k.length \in Lengths /\ Legal(k.length)
    BY DEF Access
  <1>2. k.length \in Lengths \cap 1..OA_TC6_CTRL_MAX_REGISTERS
    <2>1. k.length \in Nat
      BY <1>1, AccessAssumption
    <2> QED BY <1>1, <2>1 DEF Legal, OA_TC6_CTRL_MAX_REGISTERS
  <1>3. Argument(c, k.value) \in Values
    <2>1. k.value \in Values
      BY DEF Access
    <2>2. CASE c \in Tool
      BY <2>1, <2>2, ToolAssumption, Zenon DEF Argument
    <2>3. CASE c \notin Tool
      BY <2>1, <2>3 DEF Argument
    <2> QED BY <2>2, <2>3
  <1> QED BY <1>2, <1>3 DEF Access, Calls

\* The error codes are negative; 0 is the only value that is not an error.
LEMMA ErrorCodes ==
    \A e \in {0, EIO, EINVAL, EPROTO, EOPNOTSUPP} : e \in Int /\ (e # 0 => e < 0)
  BY DEF EIO, EINVAL, EPROTO, EOPNOTSUPP

\* What the MAC-PHY makes of a command that fits the buffers: each register in
\* the block gets the word sent for it, the others keep theirs.
LEMMA TakenType ==
    ASSUME NEW k \in Calls, TypeInv, NEW h \in Header,
           h.op = k.op, h.addr = k.addr, h.length = k.length,
           NEW data \in [Words -> Values \cup {0, Corrupt}]
    PROVE  Taken(h, data) \in [Addresses -> Values \cup {0, Corrupt}]
  <1> SUFFICES ASSUME NEW a \in Addresses
               PROVE  (IF h.op = "write" /\ a \in h.addr .. h.addr + h.length - 1
                       THEN data[a - h.addr + 1] ELSE regs[a])
                         \in Values \cup {0, Corrupt}
    BY DEF Taken
  <1>1. CASE a \in h.addr .. h.addr + h.length - 1
    <2>1. a - h.addr + 1 \in 1..k.length
      BY <1>1, AccessFits
    <2>2. a - h.addr + 1 \in Words
      BY <2>1, AccessFits
    <2> QED BY <2>2 DEF TypeInv, TypeOK
  <1>2. CASE a \notin h.addr .. h.addr + h.length - 1
    BY <1>2 DEF TypeInv, TypeOK
  <1> QED BY <1>1, <1>2

\* The echo fits the receive buffer.
LEMMA EchoType ==
    ASSUME NEW k \in Calls, TypeInv, NEW h \in Header,
           h.op = k.op, h.addr = k.addr, h.length = k.length,
           NEW data \in [Words -> Values \cup {0, Corrupt}]
    PROVE  Echo(h, data) \in [header : Header, data : [Words -> Values \cup {0, Corrupt}]]
  <1> SUFFICES ASSUME NEW i \in Words
               PROVE  (IF i > h.length THEN rx.data[i]
                       ELSE IF h.op = "write" THEN data[i] ELSE regs[h.addr + i - 1])
                         \in Values \cup {0, Corrupt}
    BY DEF Echo
  <1>1. CASE i > h.length
    BY <1>1 DEF TypeInv, TypeOK
  <1>2. CASE ~(i > h.length)
    <2>1. i \in 1..k.length
      BY <1>2, AccessFits, AccessAssumption DEF Words
    <2>2. h.addr + i - 1 \in Addresses
      BY <2>1, AccessFits
    <2> QED BY <1>2, <2>2 DEF TypeInv, TypeOK
  <1> QED BY <1>1, <1>2

\* Damage hits the header or one data word and leaves the rest of the buffer.
LEMMA DamagedType ==
    ASSUME NEW b \in [header : Header, data : [Words -> Values \cup {0, Corrupt}]],
           NEW i \in Nat, i = 0 \/ i \in Words
    PROVE  /\ Damaged(b, i) \in [header : Header, data : [Words -> Values \cup {0, Corrupt}]]
           /\ i = 0 => Damaged(b, i).header.op = "corrupt"
           /\ i # 0 => /\ Damaged(b, i).header = b.header
                       /\ Damaged(b, i).data = [b.data EXCEPT ![i] = Corrupt]
                       /\ Damaged(b, i).data[i] = Corrupt
  <1>1. CASE i = 0
    <2>1. Damaged(b, i) = [b EXCEPT !.header.op = "corrupt"]
      BY <1>1 DEF Damaged
    <2> QED BY <1>1, <2>1 DEF Header
  <1>2. CASE i # 0
    <2>1. Damaged(b, i) = [b EXCEPT !.data[i] = Corrupt]
      BY <1>2 DEF Damaged
    <2>2. i \in Words
      BY <1>2
    <2> QED BY <1>2, <2>1, <2>2
  <1> QED BY <1>1, <1>2
\* Between Prepare and Unlock the transmit buffer describes the access.
LEMMA CommandInBuffer ==
    ASSUME TypeInv, LockInv, NEW c \in Clients, pc[c] \in {"transfer", "reply"}
    PROVE  /\ req[c] \in Calls /\ tx.header \in Header
           /\ tx.header.op = req[c].op /\ tx.header.addr = req[c].addr
           /\ tx.header.length = req[c].length
           /\ tx.data \in [Words -> Values \cup {0}]
           /\ tx.data \in [Words -> Values \cup {0, Corrupt}]
  BY DEF TypeInv, TypeOK, Buffers, LockInv, CommandKept

\* Whatever happens on the link, registers and receive buffer keep their types.
LEMMA ExchangeType ==
    ASSUME TypeInv, LockInv, NEW c \in Clients, pc[c] = "transfer",
           Exchange(tx.header)
    PROVE  /\ regs' \in [Addresses -> Values \cup {0, Corrupt}]
           /\ rx' \in [header : Header, data : [Words -> Values \cup {0, Corrupt}]]
  <1> DEFINE h == tx.header
             k == req[c]
             Data == [Words -> Values \cup {0, Corrupt}]
             Rx == [header : Header, data : Data]
  <1>1. /\ k \in Calls /\ h \in Header /\ tx.data \in Data
        /\ h.op = k.op /\ h.addr = k.addr /\ h.length = k.length
        /\ tx \in Rx /\ rx \in Rx
    BY CommandInBuffer DEF TypeInv, Buffers
  <1>2. \A d \in Data : /\ Taken(h, d) \in [Addresses -> Values \cup {0, Corrupt}]
                       /\ Echo(h, d) \in Rx
    BY <1>1, TakenType, EchoType
  <1>3. \A i \in 1..h.length : i \in Words /\ i \in Nat
    BY <1>1, AccessFits
  <1>4. regs \in [Addresses -> Values \cup {0, Corrupt}]
    BY DEF TypeInv, TypeOK
  <1>5. CASE regs' = Taken(h, tx.data) /\ rx' = Echo(h, tx.data)
    BY <1>1, <1>2, <1>5
  <1>6. CASE UNCHANGED regs /\ rx' = Damaged(rx, 0)
    BY <1>1, <1>4, <1>6, DamagedType
  <1>7. CASE \E i \in 1..h.length : LET sent == Damaged(tx, i).data IN
               /\ h.op = "write"
               /\ regs' = Taken(h, sent) /\ rx' = Echo(h, sent)
    <2>1. PICK i \in 1..h.length : /\ regs' = Taken(h, Damaged(tx, i).data)
                                  /\ rx' = Echo(h, Damaged(tx, i).data)
      BY <1>7
    <2>2. Damaged(tx, i) \in Rx
      BY <1>1, <1>3, DamagedType
    <2> QED BY <2>1, <2>2, <1>2
  <1>8. CASE /\ regs' = Taken(h, tx.data)
             /\ \E i \in 0..h.length : rx' = Damaged(Echo(h, tx.data), i)
    <2>1. PICK i \in 0..h.length : rx' = Damaged(Echo(h, tx.data), i)
      BY <1>8
    <2>2. i \in Nat /\ (i = 0 \/ i \in Words)
      BY <1>1, <1>3, AccessFits
    <2>3. Echo(h, tx.data) \in Rx
      BY <1>1, <1>2
    <2>4. Damaged(Echo(h, tx.data), i) \in Rx
      BY <2>2, <2>3, DamagedType
    <2> QED BY <1>1, <1>2, <1>8, <2>1, <2>4
  <1> QED BY <1>5, <1>6, <1>7, <1>8 DEF Exchange

-----------------------------------------------------------------------------
(* Type correctness and the lock.                                          *)

USE DEF Goto

\* Initially all clients are idle and both buffers blank.
LEMMA CtrlInit == Init => TypeInv /\ LockInv
  <1> SUFFICES ASSUME Init PROVE TypeInv /\ LockInv
    OBVIOUS
  <1>1. TypeOK
    BY AccessAssumption, ErrorCodes DEF Init, TypeOK, Blank
  <1>2. Buffers
    BY DEF Init, Blank, Buffers, Header
  <1>3. LockHeld /\ CommandKept /\ ValueThere /\ IdleThere
    BY DEF Init, LockHeld, CommandKept, ValueThere, IdleThere
  <1> QED BY <1>1, <1>2, <1>3 DEF TypeInv, LockInv

\* A thread that asks for a register only sets its own arguments.
LEMMA BeginTypes ==
    ASSUME TypeInv, LockInv, NEW c \in Clients, Begin(c)
    PROVE  TypeInv' /\ LockInv'
  <1>1. req' \in [Clients -> Calls \cup {Idle}] /\ req'[c] \in Calls
        /\ \A d \in Clients \ {c} : req'[d] = req[d]
    <2>1. PICK k \in Access({n \in Lengths : Legal(n)}) :
            req' = [req EXCEPT ![c] = [k EXCEPT !.value = Argument(c, k.value)]]
      BY DEF Begin
    <2>2. [k EXCEPT !.value = Argument(c, k.value)] \in Calls
      BY ArgumentFits
    <2> QED BY <2>1, <2>2 DEF LockInv, IdleThere
  <1>2. /\ pc' = [pc EXCEPT ![c] = "lock"] /\ pc[c] = "idle"
        /\ UNCHANGED <<regs, tx, rx, holder, ret, value, answer>>
        /\ calls' = calls + 1 /\ calls < MaxCalls
    BY DEF Begin
  <1>3. TypeOK'
    BY <1>1, <1>2, AccessAssumption DEF TypeInv, TypeOK
  <1>4. Buffers'
    BY <1>2 DEF TypeInv, Buffers
  <1>5. LockHeld' /\ CommandKept' /\ ValueThere' /\ IdleThere'
    BY <1>1, <1>2, IdleAssumption
       DEF TypeInv, TypeOK, LockInv, LockHeld, CommandKept, ValueThere, IdleThere
  <1> QED BY <1>3, <1>4, <1>5 DEF TypeInv, LockInv

\* A refused access leaves all but the caller's result alone.
LEMMA RefuseTypes ==
    ASSUME TypeInv, LockInv, NEW c \in Clients, Refuse(c)
    PROVE  TypeInv' /\ LockInv'
  <1>1. PICK e \in {EINVAL, EOPNOTSUPP} : ret' = [ret EXCEPT ![c] = e]
    BY DEF Refuse
  <1>2. /\ UNCHANGED <<regs, tx, rx, holder, pc, req, value>>
        /\ calls' = calls + 1 /\ calls < MaxCalls
    BY DEF Refuse
  <1>3. TypeOK'
    BY <1>1, <1>2, AccessAssumption DEF TypeInv, TypeOK
  <1>4. Buffers' /\ LockInv'
    BY <1>2 DEF TypeInv, Buffers, LockInv, LockHeld, CommandKept, ValueThere, IdleThere
  <1> QED BY <1>3, <1>4 DEF TypeInv

\* Lock and Unlock move the lock between one thread and nobody.
LEMMA LockTypes ==
    ASSUME TypeInv, LockInv, NEW c \in Clients, Lock(c) \/ Unlock(c)
    PROVE  TypeInv' /\ LockInv'
  <1>1. CASE Lock(c)
    <2>1. TypeOK' /\ Buffers'
      BY <1>1 DEF Lock, TypeInv, TypeOK, Buffers
    <2>2. LockHeld' /\ CommandKept' /\ ValueThere' /\ IdleThere'
      BY <1>1, ClientsAssumption DEF Lock, LockFree, TypeInv, TypeOK, LockInv,
         LockHeld, CommandKept, ValueThere, IdleThere
    <2> QED BY <2>1, <2>2 DEF TypeInv, LockInv
  <1>2. CASE Unlock(c)
    <2>1. TypeOK' /\ Buffers'
      BY <1>2 DEF Unlock, Released, TypeInv, TypeOK, Buffers, LockInv, IdleThere
    <2>2. LockHeld'
      BY <1>2, ClientsAssumption DEF Unlock, Released, TypeInv, TypeOK, LockInv, LockHeld
    <2>3. CommandKept'
      BY <1>2 DEF Unlock, TypeInv, TypeOK, LockInv, CommandKept, IdleThere
    <2>4. ValueThere' /\ IdleThere'
      BY <1>2 DEF Unlock, TypeInv, TypeOK, LockInv, ValueThere, IdleThere
    <2> QED BY <2>1, <2>2, <2>3, <2>4 DEF TypeInv, LockInv
  <1> QED BY <1>1, <1>2

\* Prepare puts the command into the buffer, which nobody else uses.
LEMMA PrepareTypes ==
    ASSUME TypeInv, LockInv, NEW c \in Clients, Prepare(c)
    PROVE  TypeInv' /\ LockInv'
  <1> DEFINE k == req[c]
  <1>1. /\ k \in Calls /\ pc[c] = "prepare" /\ pc' = [pc EXCEPT ![c] = "transfer"]
        /\ UNCHANGED <<regs, rx, holder, req, ret, value, answer, calls>>
        /\ tx' = [header |-> [op |-> k.op, addr |-> k.addr, length |-> k.length],
                  data |-> [i \in Words |-> IF k.op = "write" /\ i <= k.length
                                            THEN k.value ELSE tx.data[i]]]
    BY DEF Prepare, TypeInv, TypeOK
  <1>2. /\ k.op \in {"read", "write"} /\ k.value \in Values /\ k.addr \in Nat
        /\ k.length \in Nat /\ \A i \in 1..k.length : i \in Words
    BY <1>1, AccessFits
  <1>3. Buffers'
    <2>1. tx'.header \in Header /\ tx'.header.op # "corrupt"
      BY <1>1, <1>2 DEF Header
    <2>2. tx'.data \in [Words -> Values \cup {0}]
      BY <1>1, <1>2 DEF TypeInv, Buffers
    <2>3. tx' \in [header : Header, data : [Words -> Values \cup {0}]]
      BY <1>1, <2>1, <2>2
    <2> QED BY <1>1, <2>1, <2>3 DEF TypeInv, Buffers
  <1>4. TypeOK'
    BY <1>1, <1>3 DEF TypeInv, TypeOK, Buffers
  <1>5. LockHeld' /\ ValueThere' /\ IdleThere'
    BY <1>1 DEF TypeInv, TypeOK, LockInv, LockHeld, ValueThere, IdleThere
  <1>6. CommandKept'
    <2>1. \A d \in Clients \ {c} : pc'[d] \notin {"transfer", "reply"}
      BY <1>1 DEF TypeInv, TypeOK, LockInv, LockHeld
    <2>2. \A i \in 1..k.length : k.op = "write" => tx'.data[i] = k.value
      BY <1>1, <1>2
    <2> QED BY <1>1, <2>1, <2>2 DEF CommandKept
  <1> QED BY <1>3, <1>4, <1>5, <1>6 DEF TypeInv, LockInv

\* The transfer itself changes the registers and the receive buffer; a failed
\* one leaves the buffer alone.
LEMMA TransferTypes ==
    ASSUME TypeInv, LockInv, NEW c \in Clients, Transfer(c) \/ TransferFails(c)
    PROVE  TypeInv' /\ LockInv'
  <1>1. /\ regs' \in [Addresses -> Values \cup {0, Corrupt}]
        /\ rx' \in [header : Header, data : [Words -> Values \cup {0, Corrupt}]]
    <2>1. CASE Transfer(c)
      BY <2>1, ExchangeType DEF Transfer
    <2>2. CASE TransferFails(c)
      <3>1. /\ pc[c] = "transfer" /\ rx' = rx
            /\ regs' \in {regs, Taken(tx.header, tx.data)}
        BY <2>2 DEF TransferFails
      <3>2. Taken(tx.header, tx.data) \in [Addresses -> Values \cup {0, Corrupt}]
        BY <3>1, CommandInBuffer, TakenType
      <3> QED BY <3>1, <3>2 DEF TypeInv, TypeOK, Buffers
    <2> QED BY <2>1, <2>2
  <1>2. /\ pc[c] = "transfer" /\ UNCHANGED <<tx, holder, req, value, answer, calls>>
        /\ pc' = [pc EXCEPT ![c] = "reply"] \/ pc' = [pc EXCEPT ![c] = "unlock"]
        /\ ret' = ret \/ ret' = [ret EXCEPT ![c] = EIO]
    BY DEF Transfer, TransferFails
  <1>3. TypeOK' /\ Buffers'
    BY <1>1, <1>2 DEF TypeInv, TypeOK, Buffers
  <1>4. LockHeld' /\ CommandKept' /\ ValueThere' /\ IdleThere'
    BY <1>2 DEF TypeInv, TypeOK, LockInv, LockHeld, CommandKept, ValueThere, IdleThere
  <1> QED BY <1>3, <1>4 DEF TypeInv, LockInv

\* Comparing the echo sets what the function will return.
LEMMA ReplyTypes ==
    ASSUME TypeInv, LockInv, NEW c \in Clients, Reply(c)
    PROVE  TypeInv' /\ LockInv'
  <1>1. PICK ok \in BOOLEAN :
          /\ ret' = [ret EXCEPT ![c] = IF ok THEN 0 ELSE EPROTO]
          /\ value' = [value EXCEPT ![c] = IF ok /\ req[c].op = "read"
                                THEN [i \in 1..req[c].length |-> rx.data[i]] ELSE <<>>]
    BY DEF Reply, EchoMatches, SameBytes
  <1>2. /\ pc[c] = "reply" /\ pc' = [pc EXCEPT ![c] = "unlock"]
        /\ UNCHANGED <<regs, tx, rx, holder, req, answer, calls>>
    BY DEF Reply
  <1>3. TypeOK' /\ Buffers'
    BY <1>1, <1>2 DEF TypeInv, TypeOK, Buffers
  <1>4. LockHeld' /\ CommandKept' /\ IdleThere'
    BY <1>2 DEF TypeInv, TypeOK, LockInv, LockHeld, CommandKept, IdleThere
  <1>5. ValueThere'
    BY <1>1, <1>2 DEF TypeInv, TypeOK, LockInv, ValueThere
  <1> QED BY <1>3, <1>4, <1>5 DEF TypeInv, LockInv

\* Every step preserves the types and the discipline of the lock.
LEMMA CtrlStep == TypeInv /\ LockInv /\ [Next]_vars => TypeInv' /\ LockInv'
  <1> SUFFICES ASSUME TypeInv, LockInv, [Next]_vars PROVE TypeInv' /\ LockInv'
    OBVIOUS
  <1>1. ASSUME NEW c \in Clients, Begin(c) \/ Refuse(c) \/ Step(c)
        PROVE  TypeInv' /\ LockInv'
    BY <1>1, BeginTypes, RefuseTypes, LockTypes, PrepareTypes, TransferTypes,
       ReplyTypes DEF Step
  <1>2. CASE UNCHANGED vars
    <2>1. TypeInv'
      BY <1>2 DEF vars, TypeInv, TypeOK, Buffers
    <2>2. LockInv'
      BY <1>2 DEF vars, LockInv, LockHeld, CommandKept, ValueThere, IdleThere
    <2> QED BY <2>1, <2>2
  <1> QED BY <1>1, <1>2 DEF Next

\* The registers, the buffers and what the register functions return keep
\* their types, whatever the link does.
THEOREM CtrlTyping == Spec => []TypeOK
  <1>1. Spec => [](TypeInv /\ LockInv)
    BY CtrlInit, CtrlStep, PTL DEF Spec
  <1>2. TypeInv => TypeOK
    BY DEF TypeInv
  <1> QED BY <1>1, <1>2, PTL
-----------------------------------------------------------------------------
(* What the callers are told.                                              *)

\* What a caller of kind c may answer to an error r.
Told(c, r, a) == IF c \in Tool THEN a = 0 ELSE a = r \/ (c \in Phy22 /\ a = 1)

\* An error code goes through every kind of caller but the clause 22 bus, which
\* may turn it into 1, and the tool, which turns it into 0.
LEMMA AnswerTold ==
    ASSUME NEW c \in Clients, NEW v, NEW r \in {EIO, EINVAL, EPROTO, EOPNOTSUPP}
    PROVE  Told(c, r, Answer(c, r, v))
  <1>1. r < 0 /\ r # 0
    BY ErrorCodes DEF EIO, EINVAL, EPROTO, EOPNOTSUPP
  <1>2. c \notin Tool => Answer(c, r, v) = r \/ (c \in Phy22 /\ Answer(c, r, v) = 1)
    BY <1>1 DEF Answer, C22Answer, C45Answer, IoctlAnswer
  <1>3. c \in Tool => Answer(c, r, v) = 0
    BY <1>1, KindsApart DEF Answer, ToolAnswer, IoctlAnswer
  <1> QED BY <1>2, <1>3 DEF Told

\* Every client has an answer, for what failed the one its kind gives.
AnswerInv == answer = [c \in Clients |-> answer[c]] /\ ErrorsAnswered

\* Only a refusal and the return of a register function produce an answer, and
\* both derive it from the error code.
LEMMA AnswerStep ==
    ASSUME TypeInv, AnswerInv, NEW c \in Clients, Begin(c) \/ Refuse(c) \/ Step(c)
    PROVE  AnswerInv'
  <1> USE DEF TypeInv, TypeOK, AnswerInv
  <1>1. CASE Refuse(c)
    <2>1. PICK e \in {EINVAL, EOPNOTSUPP} : /\ ret' = [ret EXCEPT ![c] = e]
                                           /\ answer' = [answer EXCEPT ![c] = e]
                                           /\ c \notin Tool
      BY <1>1, KindsApart DEF Refuse, Single
    <2>2. Told(c, e, e)
      BY <2>1 DEF Told
    <2>3. pc' = pc
      BY <1>1 DEF Refuse
    <2>4. ASSUME NEW d \in Clients, ret'[d] # 0, pc'[d] = "idle"
          PROVE  Told(d, ret'[d], answer'[d])
      <3>1. CASE d = c
        BY <2>1, <2>2, <3>1
      <3>2. CASE d # c
        BY <2>1, <2>3, <2>4, <3>2 DEF ErrorsAnswered, Told
      <3> QED BY <3>1, <3>2
    <2> QED BY <2>1, <2>4 DEF ErrorsAnswered, Told
  <1>2. CASE Unlock(c)
    <2> DEFINE v == IF ret[c] = 0 /\ req[c].op = "read" THEN value[c][1] ELSE 0
    <2>1. /\ answer' = [answer EXCEPT ![c] = Answer(c, ret[c], v)]
          /\ pc' = [pc EXCEPT ![c] = "idle"] /\ ret' = ret
      BY <1>2 DEF Unlock
    <2> HIDE DEF v
    <2>2. ASSUME NEW d \in Clients, ret'[d] # 0, pc'[d] = "idle"
          PROVE  Told(d, ret'[d], answer'[d])
      <3>1. CASE d = c
        <4>1. ret[c] \in {EIO, EINVAL, EPROTO, EOPNOTSUPP}
          BY <2>1, <2>2, <3>1
        <4>2. Told(c, ret[c], Answer(c, ret[c], v))
          BY <4>1, AnswerTold
        <4> QED BY <2>1, <3>1, <4>2
      <3>2. CASE d # c
        BY <2>1, <2>2, <3>2 DEF ErrorsAnswered, Told
      <3> QED BY <3>1, <3>2
    <2> QED BY <2>1, <2>2 DEF ErrorsAnswered, Told
  <1>3. CASE \/ Begin(c) \/ Lock(c) \/ Prepare(c) \/ Transfer(c) \/ TransferFails(c)
             \/ Reply(c)
    <2>1. /\ \A d \in Clients : pc'[d] = "idle" => pc[d] = "idle" /\ ret'[d] = ret[d]
          /\ answer' = answer
      BY <1>3 DEF Begin, Lock, Prepare, Transfer, TransferFails, Reply
    <2> QED BY <2>1 DEF ErrorsAnswered
  <1> QED BY <1>1, <1>2, <1>3 DEF Step

\* What every kind of caller makes of an access that a register function refuses
\* or reports as failed: all pass the error on, but a read on the clause 22 bus
\* may answer 1 instead and the tool answers 0. It says nothing of damage that
\* the comparison of a long block's echo does not see (configuration CtrlLong).
THEOREM CtrlErrors == Spec => []ErrorsAnswered
  <1>1. Init => AnswerInv
    BY DEF Init, AnswerInv, ErrorsAnswered
  <1>2. TypeInv /\ AnswerInv /\ [Next]_vars => AnswerInv'
    <2>1. UNCHANGED vars /\ AnswerInv => AnswerInv'
      BY DEF vars, AnswerInv, ErrorsAnswered
    <2> QED BY <2>1, AnswerStep DEF Next
  <1>3. AnswerInv => ErrorsAnswered
    BY DEF AnswerInv
  <1> QED BY <1>1, <1>2, <1>3, CtrlInit, CtrlStep, PTL DEF Spec
-----------------------------------------------------------------------------
(* The register functions implement RegisterFile.  The refinement mapping  *)
(* lets an access happen in the SPI transfer: from then on the receive     *)
(* buffer decides whether it will be reported as done.                     *)

\* Blocks for which the size of the comparison fits its u8 parameter.
ShortBlocks == \A n \in Lengths : n <= 61 \/ n > OA_TC6_CTRL_MAX_REGISTERS

\* For such a block all words are compared.
LEMMA ComparedWords ==
    ASSUME NEW n \in Nat, n <= 61
    PROVE  ComparedBytes(n) >= 4 /\ (ComparedBytes(n) \div 4) - 1 = n
  BY DEF ComparedBytes, U8, oa_tc6_calculate_ctrl_buf_size

\* Then an echo is accepted exactly if header and data are what was sent.
LEMMA EchoAccepted ==
    ASSUME ShortBlocks, TypeInv, NEW c \in Clients, req[c] \in Calls
    PROVE  /\ ~(ComparedBytes(req[c].length) < 0)
           /\ Accepted(c) <=>
                 /\ tx.header = rx.header
                 /\ req[c].op = "write" =>
                      \A i \in 1..req[c].length : tx.data[i] = rx.data[i]
           /\ UNCHANGED req => (Accepted(c)' <=>
                 /\ tx'.header = rx'.header
                 /\ req[c].op = "write" =>
                      \A i \in 1..req[c].length : tx'.data[i] = rx'.data[i])
  <1> DEFINE n == req[c].length
  <1>1. n \in Nat /\ n <= 61
    <2>1. n \in Lengths /\ n \in 1..OA_TC6_CTRL_MAX_REGISTERS
      BY DEF Calls, Access
    <2> QED BY <2>1 DEF ShortBlocks, OA_TC6_CTRL_MAX_REGISTERS
  <1>2. ComparedBytes(n) >= 4 /\ (ComparedBytes(n) \div 4) - 1 = n
    BY <1>1, ComparedWords
  <1>3. ComparedBytes(n) \in Int
    BY <1>1 DEF ComparedBytes, U8, oa_tc6_calculate_ctrl_buf_size
  <1> QED BY <1>2, <1>3 DEF Accepted, EchoMatches, SameBytes

\* After a transfer, either the echo will be accepted and the MAC-PHY has made
\* exactly the access asked for, or it will not and no register outside the
\* block has changed.
LEMMA ExchangeOutcome ==
    ASSUME ShortBlocks, TypeInv, LockInv, NEW c \in Clients, pc[c] = "transfer",
           Exchange(tx.header), UNCHANGED <<tx, req>>
    PROVE  LET k == req[c]
               block == k.addr .. k.addr + k.length - 1 IN
           \/ /\ Accepted(c)'
              /\ k.op = "write" =>
                   regs' = [a \in Addresses |-> IF a \in block THEN k.value ELSE regs[a]]
              /\ k.op # "write" =>
                   /\ regs' = regs
                   /\ \A i \in 1..k.length : rx'.data[i] = regs[k.addr + i - 1]
           \/ /\ ~Accepted(c)'
              /\ \A a \in Addresses : regs'[a] # regs[a] => k.op = "write" /\ a \in block
  <1> DEFINE h == tx.header
             k == req[c]
             block == k.addr .. k.addr + k.length - 1
             Data == [Words -> Values \cup {0, Corrupt}]
             Rx == [header : Header, data : Data]
             Done == [a \in Addresses |-> IF a \in block THEN k.value ELSE regs[a]]
  <1>1. /\ k \in Calls /\ h \in Header /\ tx.data \in Data
        /\ h.op = k.op /\ h.addr = k.addr /\ h.length = k.length
        /\ tx \in Rx /\ rx \in Rx /\ h.op # "corrupt"
        /\ tx.data \in [Words -> Values \cup {0}]
    BY CommandInBuffer DEF TypeInv, Buffers
  <1>2. /\ k.op \in {"read", "write"} /\ k.value \in Values
        /\ k.addr \in Nat /\ k.length \in Nat
        /\ \A i \in 1..k.length : i \in Words /\ i \in Nat
    BY <1>1, AccessFits
  <1>3. Accepted(c)' <=> /\ h = rx'.header
                         /\ k.op = "write" => \A i \in 1..k.length : tx.data[i] = rx'.data[i]
    BY <1>1, EchoAccepted
  <1>4. regs \in [Addresses -> Values \cup {0, Corrupt}]
    BY DEF TypeInv, TypeOK
  <1>5. \A d \in Data : /\ Echo(h, d) \in Rx /\ Echo(h, d).header = h
                       /\ \A i \in 1..k.length : Echo(h, d).data[i] =
                            IF k.op = "write" THEN d[i] ELSE regs[k.addr + i - 1]
    <2> SUFFICES ASSUME NEW d \in Data
                 PROVE  /\ Echo(h, d) \in Rx /\ Echo(h, d).header = h
                        /\ \A i \in 1..k.length : Echo(h, d).data[i] =
                             IF k.op = "write" THEN d[i] ELSE regs[k.addr + i - 1]
      OBVIOUS
    <2>1. Echo(h, d) \in Rx
      BY <1>1, EchoType
    <2>2. Echo(h, d).header = h
      BY DEF Echo
    <2>3. ASSUME NEW i \in 1..k.length
          PROVE  Echo(h, d).data[i] = IF k.op = "write" THEN d[i] ELSE regs[k.addr + i - 1]
      BY <1>1, <1>2 DEF Echo
    <2> QED BY <2>1, <2>2, <2>3
  <1>6. Taken(h, tx.data) = IF k.op = "write" THEN Done ELSE regs
    <2>1. CASE k.op = "write"
      <3> SUFFICES ASSUME NEW a \in Addresses
                   PROVE  (IF h.op = "write" /\ a \in h.addr .. h.addr + h.length - 1
                           THEN tx.data[a - h.addr + 1] ELSE regs[a]) = Done[a]
        BY <2>1 DEF Taken
      <3>1. CASE a \in block
        <4>1. a - k.addr + 1 \in 1..k.length
          BY <3>1, <1>2
        <4>2. tx.data[a - k.addr + 1] = k.value
          BY <2>1, <4>1 DEF LockInv, CommandKept
        <4> QED BY <1>1, <2>1, <3>1, <4>2
      <3>2. CASE a \notin block
        BY <1>1, <3>2
      <3> QED BY <3>1, <3>2
    <2>2. CASE k.op # "write"
      BY <1>1, <1>4, <2>2 DEF Taken
    <2> QED BY <2>1, <2>2
  <1>7. \A d \in Data, a \in Addresses :
           Taken(h, d)[a] # regs[a] => k.op = "write" /\ a \in block
    BY <1>1 DEF Taken
  <1> HIDE DEF h, k
  <1>a. CASE regs' = Taken(h, tx.data) /\ rx' = Echo(h, tx.data)
    BY <1>a, <1>1, <1>2, <1>3, <1>5, <1>6 DEF k
  <1>b. CASE UNCHANGED regs /\ rx' = Damaged(rx, 0)
    <2>1. rx'.header.op = "corrupt"
      BY <1>b, <1>1, DamagedType
    <2>2. ~Accepted(c)'
      BY <2>1, <1>1, <1>3
    <2> QED BY <1>b, <2>2
  <1>c. CASE \E i \in 1..h.length : LET sent == Damaged(tx, i).data IN
               /\ h.op = "write"
               /\ regs' = Taken(h, sent) /\ rx' = Echo(h, sent)
    <2>1. PICK i \in 1..h.length : /\ h.op = "write"
                                  /\ regs' = Taken(h, Damaged(tx, i).data)
                                  /\ rx' = Echo(h, Damaged(tx, i).data)
      BY <1>c
    <2>2. /\ Damaged(tx, i).data \in Data /\ Damaged(tx, i).data[i] = Corrupt
      <3>1. i \in Nat /\ i \in Words /\ i # 0
        BY <1>1, <1>2
      <3>2. Damaged(tx, i) \in Rx
        BY <1>1, <3>1, DamagedType
      <3>3. Damaged(tx, i).data[i] = Corrupt
        BY <1>1, <3>1, DamagedType
      <3> QED BY <3>2, <3>3
    <2>3. tx.data[i] # Corrupt
      <3>1. tx.data[i] \in Values \cup {0}
        BY <1>1, <1>2
      <3> QED BY <3>1, AccessAssumption DEF Corrupt
    <2>4. rx'.data[i] = Corrupt
      BY <2>1, <2>2, <1>1, <1>5
    <2>5. ~Accepted(c)'
      BY <2>1, <2>3, <2>4, <1>1, <1>3
    <2> QED BY <2>1, <2>2, <2>5, <1>7 DEF k
  <1>d. CASE /\ regs' = Taken(h, tx.data)
             /\ \E i \in 0..h.length : /\ h.op = "write" \/ i = 0
                                       /\ rx' = Damaged(Echo(h, tx.data), i)
    <2>1. PICK i \in 0..h.length : /\ h.op = "write" \/ i = 0
                                  /\ rx' = Damaged(Echo(h, tx.data), i)
      BY <1>d
    <2>2. i \in Nat /\ (i = 0 \/ (i \in Words /\ i \in 1..k.length))
      <3>0. h.length = k.length /\ k.length \in Nat
        BY <1>1, <1>2
      <3>1. i \in Nat /\ (i = 0 \/ i \in 1..k.length)
        BY <3>0
      <3> QED BY <3>1, <1>2
    <2>a. Echo(h, tx.data) \in Rx
      BY <1>1, <1>5
    <2>3. ~Accepted(c)'
      <3>1. CASE i = 0
        <4>1. rx'.header.op = "corrupt"
          BY <2>1, <2>a, <3>1, DamagedType
        <4> QED BY <4>1, <1>1, <1>3
      <3>2. CASE i # 0
        <4>1. rx'.data[i] = Corrupt
          BY <2>1, <2>2, <2>a, <3>2, DamagedType
        <4>2. tx.data[i] \in Values \cup {0}
          BY <1>1, <2>2, <3>2
        <4>3. tx.data[i] # Corrupt
          BY <4>2, AccessAssumption DEF Corrupt
        <4> QED BY <2>1, <2>2, <3>2, <4>1, <4>3, <1>1, <1>3
      <3> QED BY <3>1, <3>2
    <2> QED BY <1>d, <1>1, <1>7, <2>3 DEF k
  <1> QED BY <1>a, <1>b, <1>c, <1>d DEF Exchange, h, k
\* The steps of one client do not change what another one's access has come to:
\* between transfer and return no other client has the lock.
LEMMA OthersKept ==
    ASSUME TypeInv, LockInv, NEW c \in Clients, Begin(c) \/ Refuse(c) \/ Step(c),
           NEW d \in Clients \ {c}
    PROVE  /\ CallStatus(d)' = CallStatus(d) /\ CallResult(d)' = CallResult(d)
           /\ pc'[d] = pc[d] /\ req'[d] = req[d]
  <1>1. /\ pc'[d] = pc[d] /\ req'[d] = req[d] /\ ret'[d] = ret[d]
        /\ value'[d] = value[d]
    BY DEF TypeInv, TypeOK, LockInv, IdleThere, ValueThere, Begin, Refuse, Step,
           Lock, Prepare, Transfer, TransferFails, Reply, Unlock
  <1>2. CASE pc[d] = "reply"
    <2>1. UNCHANGED <<tx, rx>>
      BY <1>2, ClientsAssumption DEF Begin, Refuse, Step, Lock, LockFree, Prepare,
         Transfer, TransferFails, Reply, Unlock, LockInv, LockHeld
    <2>2. Accepted(d)' = Accepted(d)
      BY <1>1, <2>1 DEF Accepted, EchoMatches, SameBytes
    <2> QED BY <1>1, <1>2, <2>1, <2>2 DEF CallStatus, CallResult
  <1>3. CASE pc[d] # "reply"
    BY <1>1, <1>3 DEF CallStatus, CallResult
  <1> QED BY <1>1, <1>2, <1>3

Call == [c \in Clients |-> IF pc[c] = "idle" THEN Idle ELSE req[c]]
Status == [c \in Clients |-> CallStatus(c)]
Result == [c \in Clients |-> CallResult(c)]
FileVars == <<regs, Call, Status, Result>>

\* So a step of one client changes the abstract state in one place only.
LEMMA OneClient ==
    ASSUME TypeInv, LockInv, NEW c \in Clients, Begin(c) \/ Refuse(c) \/ Step(c)
    PROVE  /\ Call' = [Call EXCEPT ![c] = IF pc'[c] = "idle" THEN Idle ELSE req'[c]]
           /\ Status' = [Status EXCEPT ![c] = CallStatus(c)']
           /\ Result' = [Result EXCEPT ![c] = CallResult(c)']
  BY OthersKept DEF Call, Status, Result

\* Invoke and Return.
LEMMA BeginInvokes ==
    ASSUME TypeInv, LockInv, NEW c \in Clients, Begin(c)
    PROVE  File!Invoke(c)
  <1>1. /\ pc[c] = "idle" /\ pc'[c] = "lock" /\ regs' = regs
        /\ value' = value /\ req'[c] \in Calls
    <2>1. TypeInv' /\ LockInv'
      BY BeginTypes
    <2> QED BY <2>1 DEF Begin, TypeInv, TypeOK
  <1>2. CallStatus(c)' = "none" /\ CallResult(c)' = value[c]
        /\ CallStatus(c) = "none" /\ CallResult(c) = value[c]
    BY <1>1 DEF CallStatus, CallResult
  <1>3. /\ Status' = Status /\ Result' = Result
        /\ Call[c] = Idle /\ Call' = [Call EXCEPT ![c] = req'[c]]
    BY <1>1, <1>2, OneClient DEF Call, Status, Result
  <1> QED BY <1>1, <1>3 DEF File!Invoke, Call, Status, Result

LEMMA UnlockReturns ==
    ASSUME TypeInv, LockInv, NEW c \in Clients, Unlock(c)
    PROVE  File!Return(c)
  <1>1. /\ pc[c] = "unlock" /\ pc'[c] = "idle" /\ regs' = regs
        /\ value'[c] = <<>> /\ req[c] \in Calls
    BY DEF Unlock, TypeInv, TypeOK, LockInv, ValueThere
  <1>2. /\ CallStatus(c) # "none" /\ CallStatus(c)' = "none" /\ CallResult(c)' = <<>>
    BY <1>1 DEF CallStatus, CallResult
  <1>3. /\ Call[c] # Idle /\ Call' = [Call EXCEPT ![c] = Idle]
        /\ Status[c] # "none" /\ Status' = [Status EXCEPT ![c] = "none"]
        /\ Result' = [Result EXCEPT ![c] = <<>>]
    BY <1>1, <1>2, OneClient, IdleAssumption DEF Step, Call, Status
  <1> QED BY <1>1, <1>3 DEF File!Return, Call, Status, Result

\* A transfer that succeeds decides the access one way or the other.
LEMMA TransferDecides ==
    ASSUME ShortBlocks, TypeInv, LockInv, NEW c \in Clients, Transfer(c)
    PROVE  File!Succeed(c) \/ File!Fail(c)
  <1> DEFINE k == req[c]
             block == k.addr .. k.addr + k.length - 1
  <1>1. /\ pc[c] = "transfer" /\ pc'[c] = "reply" /\ UNCHANGED <<tx, req, value>>
        /\ Exchange(tx.header) /\ k \in Calls /\ k # Idle /\ value[c] = <<>>
    BY IdleAssumption DEF Transfer, TypeInv, TypeOK, LockInv, ValueThere
  <1>2. /\ Call[c] = k /\ Call' = Call
        /\ Status[c] = "none" /\ Result[c] = <<>>
        /\ Status' = [Status EXCEPT ![c] = IF Accepted(c)' THEN "ok" ELSE "failed"]
        /\ Result' = [Result EXCEPT ![c] =
             IF Accepted(c)' /\ k.op = "read" THEN [i \in 1..k.length |-> rx'.data[i]] ELSE <<>>]
    <2>1. /\ CallStatus(c) = "none" /\ CallResult(c) = <<>>
          /\ CallStatus(c)' = IF Accepted(c)' THEN "ok" ELSE "failed"
          /\ CallResult(c)' = IF Accepted(c)' /\ k.op = "read"
                              THEN [i \in 1..k.length |-> rx'.data[i]] ELSE <<>>
      BY <1>1 DEF CallStatus, CallResult
    <2> QED BY <1>1, <2>1, OneClient DEF Step, Call, Status, Result
  <1>3. k.op \in {"read", "write"}
    BY <1>1, AccessFits
  <1>4. CASE /\ Accepted(c)'
             /\ k.op = "write" =>
                  regs' = [a \in Addresses |-> IF a \in block THEN k.value ELSE regs[a]]
             /\ k.op # "write" =>
                  /\ regs' = regs
                  /\ \A i \in 1..k.length : rx'.data[i] = regs[k.addr + i - 1]
    <2>1. Status' = [Status EXCEPT ![c] = "ok"]
      BY <1>2, <1>4
    <2>2. CASE k.op = "write"
      <3>1. Result' = Result
        BY <1>2, <2>2 DEF Result
      <3> QED BY <1>1, <1>2, <1>4, <2>1, <2>2, <3>1
              DEF File!Succeed, File!Span, Call, Status, Result
    <2>3. CASE k.op # "write"
      <3>1. Result' = [Result EXCEPT ![c] = [i \in 1..k.length |-> regs[k.addr + i - 1]]]
        BY <1>2, <1>3, <1>4, <2>3
      <3> QED BY <1>1, <1>2, <1>4, <2>1, <2>3, <3>1
              DEF File!Succeed, File!Content, Call, Status, Result
    <2> QED BY <2>2, <2>3
  <1>5. CASE /\ ~Accepted(c)'
             /\ \A a \in Addresses : regs'[a] # regs[a] => k.op = "write" /\ a \in block
    <2>1. Status' = [Status EXCEPT ![c] = "failed"] /\ Result' = Result
      BY <1>2, <1>5 DEF Result
    <2> QED BY <1>1, <1>2, <1>5, <2>1 DEF File!Fail, File!Span, Call, Status, Result
  <1> QED BY <1>1, <1>4, <1>5, ExchangeOutcome
\* One that spi_sync reports as failed may have reached the MAC-PHY.
LEMMA TransferFailsFails ==
    ASSUME TypeInv, LockInv, NEW c \in Clients, TransferFails(c)
    PROVE  File!Fail(c)
  <1> DEFINE k == req[c]
  <1>1. /\ pc[c] = "transfer" /\ pc'[c] = "unlock" /\ UNCHANGED <<req, value>>
        /\ ret'[c] = EIO /\ regs' \in {regs, Taken(tx.header, tx.data)}
        /\ k \in Calls /\ k # Idle
    BY IdleAssumption DEF TransferFails, TypeInv, TypeOK
  <1>2. CallStatus(c) = "none" /\ CallStatus(c)' = "failed"
        /\ CallResult(c)' = CallResult(c)
    BY <1>1 DEF CallStatus, CallResult, EIO
  <1>3. /\ Call[c] = k /\ Call' = Call /\ Status[c] = "none"
        /\ Status' = [Status EXCEPT ![c] = "failed"] /\ Result' = Result
    BY <1>1, <1>2, OneClient DEF Step, Call, Status, Result
  <1>4. \A a \in Addresses : regs'[a] # regs[a] =>
           k.op = "write" /\ a \in k.addr .. k.addr + k.length - 1
    BY <1>1, CommandInBuffer DEF Taken
  <1> QED BY <1>1, <1>3, <1>4 DEF File!Fail, File!Span, Call, Status, Result

\* Comparing the echo finds what the receive buffer said all along.
LEMMA ReplyAgrees ==
    ASSUME ShortBlocks, TypeInv, LockInv, NEW c \in Clients, Reply(c)
    PROVE  UNCHANGED FileVars
  <1> DEFINE k == req[c]
  <1>1. /\ pc[c] = "reply" /\ pc'[c] = "unlock" /\ UNCHANGED <<regs, tx, rx, req>>
        /\ k \in Calls /\ value[c] = <<>>
    BY DEF Reply, TypeInv, TypeOK, LockInv, ValueThere
  <1>2. /\ ret'[c] = IF Accepted(c) THEN 0 ELSE EPROTO
        /\ value'[c] = IF Accepted(c) /\ k.op = "read"
                       THEN [i \in 1..k.length |-> rx.data[i]] ELSE <<>>
    <2>1. ~(ComparedBytes(k.length) < 0)
      BY <1>1, EchoAccepted
    <2> QED BY <1>1, <2>1 DEF Reply, Accepted, TypeInv, TypeOK, LockInv, ValueThere
  <1>3. CallStatus(c)' = CallStatus(c) /\ CallResult(c)' = CallResult(c)
    BY <1>1, <1>2 DEF CallStatus, CallResult, EPROTO
  <1> QED BY <1>1, <1>3, OneClient, IdleAssumption DEF Step, FileVars, Call, Status, Result

\* Waiting for the lock and preparing the command are no steps of RegisterFile,
\* nor is a refusal.
LEMMA OtherStepsStutter ==
    ASSUME TypeInv, LockInv, NEW c \in Clients, Refuse(c) \/ Lock(c) \/ Prepare(c)
    PROVE  UNCHANGED FileVars
  <1>1. CallStatus(c)' = CallStatus(c) /\ CallResult(c)' = CallResult(c)
        /\ (pc'[c] = "idle" <=> pc[c] = "idle") /\ req' = req /\ regs' = regs
    BY DEF Refuse, Lock, Prepare, CallStatus, CallResult, TypeInv, TypeOK
  <1> QED BY <1>1, OneClient DEF Step, FileVars, Call, Status, Result

\* Whatever the link does to a command or its echo: an access that reports
\* success took place at one instant, on all its registers, and a failed one
\* changed no register but those it was to write.  The hypothesis is needed: from
\* 62 registers on the u8 size of the comparison wraps around.
THEOREM CtrlAtomicity == ShortBlocks => (Spec => AccessesAtomic)
  <1> SUFFICES ASSUME ShortBlocks PROVE Spec => AccessesAtomic
    OBVIOUS
  <1>1. Init => File!Init
    <2> SUFFICES ASSUME Init PROVE File!Init
      OBVIOUS
    <2>1. \A c \in Clients : CallStatus(c) = "none" /\ CallResult(c) = <<>>
      BY DEF Init, CallStatus, CallResult
    <2> QED BY <2>1 DEF Init, File!Init
  <1>2. TypeInv /\ LockInv /\ [Next]_vars => [File!Next]_FileVars
    <2> SUFFICES ASSUME TypeInv, LockInv, [Next]_vars PROVE [File!Next]_FileVars
      OBVIOUS
    <2>1. ASSUME NEW c \in Clients, Begin(c) \/ Refuse(c) \/ Step(c)
          PROVE  File!Next \/ UNCHANGED FileVars
      BY <2>1, BeginInvokes, UnlockReturns, TransferDecides, TransferFailsFails,
         ReplyAgrees, OtherStepsStutter DEF Step, File!Next
    <2>2. UNCHANGED vars => UNCHANGED FileVars
      BY DEF vars, FileVars, Call, Status, Result, CallStatus, CallResult,
             Accepted, EchoMatches, SameBytes
    <2> QED BY <2>1, <2>2 DEF Next
  <1>3. Spec => []( TypeInv /\ LockInv)
    BY CtrlInit, CtrlStep, PTL DEF Spec
  <1> QED BY <1>1, <1>2, <1>3, PTL
          DEF Spec, AccessesAtomic, File!Spec, FileVars, Call, Status, Result

-----------------------------------------------------------------------------
(* The words on the line (Headers): numbers and their bits, the fields.    *)

\* A number is its digits and what is left of it above them.
LEMMA Digits ==
    ASSUME NEW v \in Nat, NEW k \in {0, 1, 3, 5, 6, 15}
    PROVE  Value(Bits(v) \cap 0..k) = v % 2^(k + 1)
  <1> DEFINE d == [i \in 0..16 |-> v \div 2^i]
             b == [i \in 0..15 |-> IF i \in Bits(v) \cap 0..k THEN 1 ELSE 0]
  <1>1. /\ d[0] = v /\ d[1] = v \div 2 /\ d[2] = v \div 4 /\ d[3] = v \div 8
        /\ d[4] = v \div 16 /\ d[5] = v \div 32 /\ d[6] = v \div 64 /\ d[7] = v \div 128
        /\ d[8] = v \div 256 /\ d[9] = v \div 512 /\ d[10] = v \div 1024
        /\ d[11] = v \div 2048 /\ d[12] = v \div 4096 /\ d[13] = v \div 8192
        /\ d[14] = v \div 16384 /\ d[15] = v \div 32768 /\ d[16] = v \div 65536
    BY SMT
  <1>2. \A i \in 0..15 : d[i] = v \div 2^i
    OBVIOUS
  <1> HIDE DEF d
  <1>3. \A i \in 0..16 : d[i] \in Nat
    BY <1>1
  <1>4. \A i \in 0..15 : b[i] = IF i <= k THEN d[i] % 2 ELSE 0
    <2> SUFFICES ASSUME NEW i \in 0..15 PROVE b[i] = IF i <= k THEN d[i] % 2 ELSE 0
      OBVIOUS
    <2>1. i \in 0..30 /\ (i \in 0..k <=> i <= k)
      OBVIOUS
    <2>2. d[i] % 2 \in {0, 1}
      BY <1>3
    <2> QED BY <1>2, <2>1, <2>2 DEF Bits
  <1>5. Value(Bits(v) \cap 0..k)
          = b[0] + 2 * b[1] + 4 * b[2] + 8 * b[3]
            + 16 * (b[4] + 2 * b[5] + 4 * b[6] + 8 * b[7])
            + 256 * (b[8] + 2 * b[9] + 4 * b[10] + 8 * b[11])
            + 4096 * (b[12] + 2 * b[13] + 4 * b[14] + 8 * b[15])
    BY DEF Value
  <1> HIDE DEF b
  <1>6. /\ d[0] = 2 * d[1] + (d[0] % 2) /\ d[1] = 2 * d[2] + (d[1] % 2)
        /\ d[2] = 2 * d[3] + (d[2] % 2) /\ d[3] = 2 * d[4] + (d[3] % 2)
        /\ d[4] = 2 * d[5] + (d[4] % 2) /\ d[5] = 2 * d[6] + (d[5] % 2)
        /\ d[6] = 2 * d[7] + (d[6] % 2) /\ d[7] = 2 * d[8] + (d[7] % 2)
        /\ d[8] = 2 * d[9] + (d[8] % 2) /\ d[9] = 2 * d[10] + (d[9] % 2)
        /\ d[10] = 2 * d[11] + (d[10] % 2) /\ d[11] = 2 * d[12] + (d[11] % 2)
        /\ d[12] = 2 * d[13] + (d[12] % 2) /\ d[13] = 2 * d[14] + (d[13] % 2)
        /\ d[14] = 2 * d[15] + (d[14] % 2) /\ d[15] = 2 * d[16] + (d[15] % 2)
    BY <1>1
  <1>7. CASE k = 0
    <2>1. b[0] = d[0] % 2 /\ \A i \in 1..15 : b[i] = 0
      BY <1>4, <1>7
    <2>2. Value(Bits(v) \cap 0..k) = d[0] % 2
      BY <1>5, <1>3, <2>1
    <2> QED BY <1>1, <1>7, <2>2
  <1>8. CASE k = 1
    <2>1. /\ b[0] = d[0] % 2 /\ b[1] = d[1] % 2
          /\ \A i \in 2..15 : b[i] = 0
      BY <1>4, <1>8
    <2>2. Value(Bits(v) \cap 0..k) = v - 4 * d[2]
      BY <1>1, <1>5, <1>3, <1>6, <2>1
    <2> QED BY <1>1, <1>8, <2>2
  <1>9. CASE k = 3
    <2>1. /\ b[0] = d[0] % 2 /\ b[1] = d[1] % 2 /\ b[2] = d[2] % 2 /\ b[3] = d[3] % 2
          /\ \A i \in 4..15 : b[i] = 0
      BY <1>4, <1>9
    <2>2. Value(Bits(v) \cap 0..k) = v - 16 * d[4]
      BY <1>1, <1>5, <1>3, <1>6, <2>1
    <2> QED BY <1>1, <1>9, <2>2
  <1>10. CASE k = 5
    <2>1. /\ b[0] = d[0] % 2 /\ b[1] = d[1] % 2 /\ b[2] = d[2] % 2 /\ b[3] = d[3] % 2
          /\ b[4] = d[4] % 2 /\ b[5] = d[5] % 2
          /\ \A i \in 6..15 : b[i] = 0
      BY <1>4, <1>10
    <2>2. Value(Bits(v) \cap 0..k) = v - 64 * d[6]
      BY <1>1, <1>5, <1>3, <1>6, <2>1
    <2> QED BY <1>1, <1>10, <2>2
  <1>11. CASE k = 6
    <2>1. /\ b[0] = d[0] % 2 /\ b[1] = d[1] % 2 /\ b[2] = d[2] % 2 /\ b[3] = d[3] % 2
          /\ b[4] = d[4] % 2 /\ b[5] = d[5] % 2 /\ b[6] = d[6] % 2
          /\ \A i \in 7..15 : b[i] = 0
      BY <1>4, <1>11
    <2>2. Value(Bits(v) \cap 0..k) = v - 128 * d[7]
      BY <1>1, <1>5, <1>3, <1>6, <2>1
    <2> QED BY <1>1, <1>11, <2>2
  <1>12. CASE k = 15
    <2>1. /\ b[0] = d[0] % 2 /\ b[1] = d[1] % 2 /\ b[2] = d[2] % 2 /\ b[3] = d[3] % 2
          /\ b[4] = d[4] % 2 /\ b[5] = d[5] % 2 /\ b[6] = d[6] % 2 /\ b[7] = d[7] % 2
          /\ b[8] = d[8] % 2 /\ b[9] = d[9] % 2 /\ b[10] = d[10] % 2 /\ b[11] = d[11] % 2
          /\ b[12] = d[12] % 2 /\ b[13] = d[13] % 2 /\ b[14] = d[14] % 2 /\ b[15] = d[15] % 2
      BY <1>4, <1>12
    <2>2. Value(Bits(v) \cap 0..k) = v - 65536 * d[16]
      BY SMT, <1>1, <1>5, <1>3, <1>6, <2>1
    <2> QED BY SMT, <1>1, <1>12, <2>2
  <1> QED BY <1>7, <1>8, <1>9, <1>10, <1>11, <1>12

\* The fields of the headers, with the number of values they hold.
Field(hi, lo, w) ==
  \E k \in {0, 1, 3, 5, 6, 15} : lo \in 1..31 /\ hi = lo + k /\ w = 2^(k + 1)

LEMMA Fields ==
    /\ Field(29, 29, 2) /\ Field(27, 24, 16) /\ Field(23, 8, 2^16) /\ Field(7, 1, 128)
    /\ Field(21, 21, 2) /\ Field(20, 20, 2) /\ Field(14, 14, 2)
    /\ Field(13, 8, 64) /\ Field(7, 6, 4)
  <1>1. /\ Field(29, 29, 2) /\ Field(21, 21, 2) /\ Field(20, 20, 2) /\ Field(14, 14, 2)
    BY 29 + 0 = 29, 21 + 0 = 21, 20 + 0 = 20, 14 + 0 = 14, 2^(0 + 1) = 2 DEF Field
  <1>2. Field(7, 6, 4)
    BY 6 + 1 = 7, 2^(1 + 1) = 4 DEF Field
  <1>3. Field(27, 24, 16)
    BY 24 + 3 = 27, 2^(3 + 1) = 16 DEF Field
  <1>4. Field(13, 8, 64)
    BY 8 + 5 = 13, 2^(5 + 1) = 64 DEF Field
  <1>5. Field(7, 1, 128)
    BY 1 + 6 = 7, 2^(6 + 1) = 128 DEF Field
  <1>6. Field(23, 8, 2^16)
    BY 8 + 15 = 23, 15 + 1 = 16 DEF Field
  <1> QED BY <1>1, <1>2, <1>3, <1>4, <1>5, <1>6

Carries(W, hi, lo, v) == W \cap lo..hi = FieldPrep(hi, lo, v)

\* A field that was written reads back, cut to its width.
LEMMA FieldRead ==
    ASSUME NEW v \in Nat, NEW lo, NEW hi, NEW w, Field(hi, lo, w),
           NEW W, Carries(W, hi, lo, v)
    PROVE  FieldGet(hi, lo, W) = v % w
  <1>1. \A i \in Bits(v) : i \in Nat
    BY DEF Bits
  <1>2. PICK k \in {0, 1, 3, 5, 6, 15} :
           hi = lo + k /\ lo \in 1..31 /\ w = 2^(k + 1)
    BY DEF Field
  <1>3. {b - lo : b \in W \cap lo..hi} = Bits(v) \cap 0..k
    <2>1. ASSUME NEW b \in W \cap lo..hi
          PROVE  b - lo \in Bits(v) \cap 0..k
      <3>1. PICK i \in Bits(v) : b = lo + i
        BY DEF FieldPrep, Carries
      <3> QED BY <1>1, <1>2, <3>1
    <2>2. ASSUME NEW i \in Bits(v) \cap 0..k
          PROVE  \E b \in W \cap lo..hi : i = b - lo
      <3>1. lo + i \in W \cap lo..hi
        BY <1>2 DEF FieldPrep, Carries
      <3>2. i = (lo + i) - lo
        BY <1>1, <1>2
      <3> QED BY <3>1, <3>2
    <2> QED BY <2>1, <2>2
  <1>4. Value(Bits(v) \cap 0..k) = v % 2^(k + 1)
    BY Digits
  <1> QED BY <1>2, <1>3, <1>4 DEF FieldGet

LEMMA FieldSpan ==
    ASSUME NEW v, NEW lo, NEW hi
    PROVE  FieldPrep(hi, lo, v) \in SUBSET (lo..hi)
  BY DEF FieldPrep

\* A flag is one bit.
LEMMA Flag == FieldPrep(0, 0, 0) = {} /\ FieldPrep(0, 0, 1) = {0}
  <1>1. 0 \notin Bits(0) /\ 0 \in Bits(1)
    <2>1. 0 \div 2^0 = 0 /\ 1 \div 2^0 = 1
      OBVIOUS
    <2> QED BY <2>1 DEF Bits
  <1>2. \A v : \A b \in FieldPrep(0, 0, v) : b = 0 /\ 0 \in Bits(v)
    <2> SUFFICES ASSUME NEW v, NEW b \in FieldPrep(0, 0, v)
                 PROVE  b = 0 /\ 0 \in Bits(v)
      OBVIOUS
    <2>1. b \in 0..0 /\ b \in {0 + i : i \in Bits(v)}
      BY DEF FieldPrep
    <2>2. PICK i \in Bits(v) : b = 0 + i
      BY <2>1
    <2>3. i \in Int
      BY DEF Bits
    <2> QED BY <2>1, <2>2, <2>3
  <1>3. 0 \in FieldPrep(0, 0, 1)
    <2>1. 0 = 0 + 0 /\ 0 \in 0..0
      OBVIOUS
    <2> QED BY <1>1, <2>1 DEF FieldPrep
  <1> QED BY <1>1, <1>2, <1>3

-----------------------------------------------------------------------------
(* The parity.                                                             *)

\* One element more, or not.
LEMMA Grow ==
    \A S, T, x : IsFiniteSet(T) /\ x \notin T =>
      Cardinality(S \cap (T \cup {x})) = Cardinality(S \cap T) + IF x \in S THEN 1 ELSE 0
  <1> SUFFICES ASSUME NEW S, NEW T, NEW x, IsFiniteSet(T), x \notin T
               PROVE  Cardinality(S \cap (T \cup {x}))
                        = Cardinality(S \cap T) + IF x \in S THEN 1 ELSE 0
    OBVIOUS
  <1>1. IsFiniteSet(S \cap T) /\ Cardinality(S \cap T) \in Nat
    BY FS_Intersection, FS_CardinalityType
  <1>2. CASE x \in S
    <2>1. S \cap (T \cup {x}) = (S \cap T) \cup {x}
      BY <1>2
    <2> QED BY <1>1, <1>2, <2>1, FS_AddElement
  <1>3. CASE x \notin S
    <2>1. S \cap (T \cup {x}) = S \cap T /\ Cardinality(S \cap T) + 0 = Cardinality(S \cap T)
      BY <1>1, <1>3
    <2> QED BY <1>3, <2>1
  <1> QED BY <1>2, <1>3

LEMMA UpTo ==
    ASSUME NEW S, NEW m \in Int, NEW k \in Nat, k = m + 1
    PROVE  Cardinality(S \cap 0..k) = Cardinality(S \cap 0..m) + IF k \in S THEN 1 ELSE 0
  <1>1. 0..k = (0..m) \cup {k} /\ k \notin 0..m
    OBVIOUS
  <1>2. IsFiniteSet(0..m)
    BY FS_Interval
  <1>3. Cardinality(S \cap ((0..m) \cup {k})) = Cardinality(S \cap 0..m) + IF k \in S THEN 1 ELSE 0
    BY <1>1, <1>2, Grow
  <1> QED BY <1>1, <1>3

\* What the shifts leave in the lowest bit of a nibble: the parity of the nibble.
LEMMA NibbleParity ==
    ASSUME NEW S \in SUBSET (0..31), NEW j \in {4 * i : i \in 0..7}
    PROVE  LET p1 == Xor(S, ShiftRight(S, 1))
               p2 == Xor(p1, ShiftRight(p1, 2))
           IN (IF j \in p2 THEN 1 ELSE 0)
                = ((IF j \in S THEN 1 ELSE 0) + (IF j + 1 \in S THEN 1 ELSE 0)
                   + (IF j + 2 \in S THEN 1 ELSE 0) + (IF j + 3 \in S THEN 1 ELSE 0)) % 2
  <1> DEFINE p1 == Xor(S, ShiftRight(S, 1))
             p2 == Xor(p1, ShiftRight(p1, 2))
             X(a, b) == (a /\ ~b) \/ (b /\ ~a)
  <1>1. j \in Int /\ j >= 0
    OBVIOUS
  <1>2. \A i \in Nat : i \in p1 <=> X(i \in S, i + 1 \in S)
    <2> SUFFICES ASSUME NEW i \in Nat PROVE i \in p1 <=> X(i \in S, i + 1 \in S)
      OBVIOUS
    <2>1. i \in ShiftRight(S, 1) <=> i + 1 \in S
      <3>1. ASSUME i + 1 \in S PROVE i \in ShiftRight(S, 1)
        <4>1. i + 1 \in {c \in S : c >= 1} /\ i = (i + 1) - 1
          BY <3>1
        <4> QED BY <4>1 DEF ShiftRight
      <3>2. ASSUME i \in ShiftRight(S, 1) PROVE i + 1 \in S
        <4>1. PICK b \in S : i = b - 1
          BY <3>2 DEF ShiftRight
        <4>2. b \in Int
          OBVIOUS
        <4> QED BY <4>1, <4>2
      <3> QED BY <3>1, <3>2
    <2> QED BY <2>1 DEF Xor
  <1>3. p1 \subseteq Int
    <2>1. \A b \in S : b \in Int /\ b - 1 \in Int
      OBVIOUS
    <2> QED BY <2>1 DEF Xor, ShiftRight
  <1>4. j \in p2 <=> X(j \in p1, j + 2 \in p1)
    <2>1. j \in ShiftRight(p1, 2) <=> j + 2 \in p1
      <3> HIDE DEF p1
      <3>1. ASSUME j + 2 \in p1 PROVE j \in ShiftRight(p1, 2)
        <4>1. j + 2 \in {c \in p1 : c >= 2} /\ j = (j + 2) - 2
          BY <1>1, <3>1
        <4> QED BY <4>1 DEF ShiftRight
      <3>2. ASSUME j \in ShiftRight(p1, 2) PROVE j + 2 \in p1
        <4>1. PICK b \in p1 : j = b - 2
          BY <3>2 DEF ShiftRight
        <4> QED BY <1>3, <4>1
      <3> QED BY <3>1, <3>2
    <2> HIDE DEF p1
    <2> QED BY <2>1 DEF Xor
  <1>5. j + 2 + 1 = j + 3 /\ j \in Nat /\ j + 2 \in Nat
    BY <1>1
  <1>6. /\ j \in p1 <=> X(j \in S, j + 1 \in S)
        /\ j + 2 \in p1 <=> X(j + 2 \in S, j + 3 \in S)
    BY <1>2, <1>5
  <1> HIDE DEF p1, p2
  <1>7. (IF j \in p2 THEN 1 ELSE 0)
          = ((IF j \in S THEN 1 ELSE 0) + (IF j + 1 \in S THEN 1 ELSE 0)
             + (IF j + 2 \in S THEN 1 ELSE 0) + (IF j + 3 \in S THEN 1 ELSE 0)) % 2
    BY <1>4, <1>6
  <1> QED BY <1>7 DEF p1, p2

\* The lowest i nibbles of S have as many ones as P has marks on them, but for
\* an even number.
Agree(S, P, i) ==
  Cardinality(S \cap 0..4 * i - 1) % 2 = Cardinality(P \cap {4 * m : m \in 0..i - 1}) % 2

LEMMA NibbleStep ==
    ASSUME NEW S, NEW P, NEW i \in 0..7, Agree(S, P, i),
           (IF 4 * i \in P THEN 1 ELSE 0)
             = ((IF 4 * i \in S THEN 1 ELSE 0) + (IF 4 * i + 1 \in S THEN 1 ELSE 0)
                + (IF 4 * i + 2 \in S THEN 1 ELSE 0) + (IF 4 * i + 3 \in S THEN 1 ELSE 0)) % 2
    PROVE  Agree(S, P, i + 1)
  <1> DEFINE n == 4 * i
             one(x) == IF x \in S THEN 1 ELSE 0
             M == {4 * m : m \in 0..i - 1}
             c == Cardinality(S \cap 0..n - 1)
             p == Cardinality(P \cap M)
             q == IF n \in P THEN 1 ELSE 0
  <1>1. n \in Nat /\ n - 1 \in Int /\ n + 1 \in Int /\ n + 2 \in Int /\ n + 3 \in Int
    OBVIOUS
  <1>2. /\ q = (one(n) + one(n + 1) + one(n + 2) + one(n + 3)) % 2
        /\ c % 2 = p % 2
        /\ 4 * (i + 1) - 1 = n + 3 /\ (i + 1) - 1 = i
    BY DEF Agree
  <1>3. M \subseteq 0..n - 1 /\ {4 * m : m \in 0..i} = M \cup {n} /\ n \notin M
    <2>1. 0..i = (0..i - 1) \cup {i} /\ \A m \in 0..i - 1 : m \in Int /\ m # i
      OBVIOUS
    <2>2. \A m \in 0..i - 1 : 4 * m \in 0..n - 1
      OBVIOUS
    <2> QED BY <2>1, <2>2
  <1>4. q \in 0..1 /\ \A x : one(x) \in 0..1
    OBVIOUS
  <1> HIDE DEF n, M
  <1>5. IsFiniteSet(M) /\ IsFiniteSet(0..n - 1)
    <2>1. IsFiniteSet(0..n - 1)
      BY <1>1, FS_Interval
    <2> QED BY <1>3, <2>1, FS_Subset
  <1>6. c \in Nat /\ p \in Nat
    BY <1>5, FS_Intersection, FS_CardinalityType
  <1>7. Cardinality(S \cap 0..n) = c + one(n)
    <2>1. n = (n - 1) + 1
      BY <1>1
    <2> QED BY <1>1, <2>1, UpTo
  <1>8. Cardinality(S \cap 0..n + 1) = Cardinality(S \cap 0..n) + one(n + 1)
    <2>1. n + 1 \in Nat
      BY <1>1
    <2> QED BY <1>1, <2>1, UpTo
  <1>9. Cardinality(S \cap 0..n + 2) = Cardinality(S \cap 0..n + 1) + one(n + 2)
    <2>1. PICK a \in Int, b \in Nat : a = n + 1 /\ b = n + 2 /\ b = a + 1
      BY <1>1
    <2>2. Cardinality(S \cap 0..b) = Cardinality(S \cap 0..a) + one(b)
      BY <2>1, UpTo
    <2> QED BY <2>1, <2>2
  <1>10. Cardinality(S \cap 0..n + 3) = Cardinality(S \cap 0..n + 2) + one(n + 3)
    <2>1. PICK a \in Int, b \in Nat : a = n + 2 /\ b = n + 3 /\ b = a + 1
      BY <1>1
    <2>2. Cardinality(S \cap 0..b) = Cardinality(S \cap 0..a) + one(b)
      BY <2>1, UpTo
    <2> QED BY <2>1, <2>2
  <1>11. Cardinality(P \cap {4 * m : m \in 0..i}) = p + q
    BY <1>3, <1>5, Grow
  <1> HIDE DEF one, c, p, q
  <1>12. (c + one(n) + one(n + 1) + one(n + 2) + one(n + 3)) % 2 = (p + q) % 2
    <2>1. \A x1, x2, x3, x4, y \in 0..1, k, l \in Nat :
            k % 2 = l % 2 /\ y = (x1 + x2 + x3 + x4) % 2
              => (k + x1 + x2 + x3 + x4) % 2 = (l + y) % 2
      OBVIOUS
    <2> QED BY <1>2, <1>4, <1>6, <2>1
  <1> QED BY <1>2, <1>7, <1>8, <1>9, <1>10, <1>11, <1>12 DEF Agree, n

\* The trick of oa_tc6_get_parity counts modulo two.
LEMMA ParityCounts ==
    ASSUME NEW S \in SUBSET (0..31)
    PROVE  /\ IsFiniteSet(S) /\ Cardinality(S) \in Nat
           /\ oa_tc6_get_parity(S) = IF Cardinality(S) % 2 = 1 THEN 0 ELSE 1
  <1> DEFINE p1 == Xor(S, ShiftRight(S, 1))
             P == Xor(p1, ShiftRight(p1, 2))
  <1>1. ASSUME NEW i \in 0..7, Agree(S, P, i)
        PROVE  Agree(S, P, i + 1)
    <2>1. 4 * i \in {4 * m : m \in 0..7}
      OBVIOUS
    <2>2. (IF 4 * i \in P THEN 1 ELSE 0)
             = ((IF 4 * i \in S THEN 1 ELSE 0) + (IF 4 * i + 1 \in S THEN 1 ELSE 0)
                + (IF 4 * i + 2 \in S THEN 1 ELSE 0) + (IF 4 * i + 3 \in S THEN 1 ELSE 0)) % 2
      BY <2>1, NibbleParity
    <2> HIDE DEF P
    <2> QED BY <1>1, <2>2, NibbleStep
  <1> HIDE DEF P
  <1>2. Agree(S, P, 0)
    <2>1. S \cap 0..4 * 0 - 1 = {} /\ P \cap {4 * m : m \in 0..0 - 1} = {}
      OBVIOUS
    <2> QED BY <2>1 DEF Agree
  <1>3. Agree(S, P, 1) /\ Agree(S, P, 2)
    BY <1>1, <1>2, 0 + 1 = 1, 1 + 1 = 2
  <1>4. Agree(S, P, 3) /\ Agree(S, P, 4)
    BY <1>1, <1>3, 2 + 1 = 3, 3 + 1 = 4
  <1>5. Agree(S, P, 5) /\ Agree(S, P, 6)
    BY <1>1, <1>4, 4 + 1 = 5, 5 + 1 = 6
  <1>6. Agree(S, P, 8)
    BY <1>1, <1>5, 6 + 1 = 7, 7 + 1 = 8
  <1>7. S \cap 0..4 * 8 - 1 = S /\ 8 - 1 = 7
    <2>1. 4 * 8 - 1 = 31 /\ 8 - 1 = 7
      OBVIOUS
    <2> QED BY <2>1
  <1>8. IsFiniteSet(S)
    <2>1. IsFiniteSet(0..31)
      BY 0 \in Int, 31 \in Int, FS_Interval
    <2> QED BY <2>1, FS_Subset
  <1>9. Cardinality(S) \in Nat
    BY <1>8, FS_CardinalityType
  <1>10. Cardinality(S) % 2 = Cardinality(P \cap {4 * m : m \in 0..7}) % 2
    BY <1>6, <1>7 DEF Agree
  <1> QED BY <1>8, <1>9, <1>10 DEF oa_tc6_get_parity, Cardinality, P

LEMMA OddCount == \A S : OddParity(S) <=> Cardinality(S) % 2 = 1
  BY DEF OddParity, Cardinality

\* With the parity bit, a word has an odd number of ones, and its other bits are
\* what they were.
LEMMA ParityOdd ==
    ASSUME NEW S \in SUBSET (1..31)
    PROVE  /\ OddParity(WithParity(S))
           /\ WithParity(S) \cap 1..31 = S /\ WithParity(S) \subseteq 0..31
  <1>1. S \in SUBSET (0..31) /\ 0 \notin S
    OBVIOUS
  <1>2. CASE Cardinality(S) % 2 = 1
    <2>1. WithParity(S) = S
      BY <1>1, <1>2, ParityCounts, Flag DEF WithParity
    <2> QED BY <1>1, <1>2, <2>1, OddCount
  <1>3. CASE Cardinality(S) % 2 # 1
    <2>1. WithParity(S) = S \cup {0}
      BY <1>1, <1>3, ParityCounts, Flag DEF WithParity
    <2>2. Cardinality(S \cup {0}) = Cardinality(S) + 1 /\ Cardinality(S) \in Nat
      BY <1>1, ParityCounts, FS_AddElement
    <2>3. Cardinality(S \cup {0}) % 2 = 1
      BY <1>3, <2>2
    <2>4. OddParity(WithParity(S))
      BY <2>1, <2>3, OddCount
    <2>5. (S \cup {0}) \cap 1..31 = S /\ S \cup {0} \subseteq 0..31
      <3>1. 0 \notin 1..31 /\ 0 \in 0..31 /\ S \subseteq 1..31 /\ 1..31 \subseteq 0..31
        OBVIOUS
      <3> QED BY <3>1
    <2> QED BY <2>1, <2>4, <2>5
  <1> QED BY <1>2, <1>3

-----------------------------------------------------------------------------
(* The headers.                                                            *)

\* A control header reads back as what it was made from, an address cut to the
\* 20 bits of a memory map.
ReadsAs(W, a, n, w) ==
  /\ OddParity(W) /\ W \cap {31, 30, 28} = {}
  /\ FieldGet(29, 29, W) = IF w THEN 1 ELSE 0
  /\ FieldGet(27, 24, W) * 2^16 + FieldGet(23, 8, W) = a % 2^20
  /\ FieldGet(7, 1, W) + 1 = n

LEMMA CtrlDecodes ==
    ASSUME NEW a \in Nat, NEW n \in 1..128, NEW w \in BOOLEAN
    PROVE  ReadsAs(oa_tc6_prepare_ctrl_header(a, n, w), a, n, w)
  <1> DEFINE f == IF w THEN 1 ELSE 0
             A == FieldPrep(29, 29, f)
             B == FieldPrep(27, 24, a \div 2^16)
             C == FieldPrep(23, 8, a)
             D == FieldPrep(7, 1, n - 1)
             W == oa_tc6_prepare_ctrl_header(a, n, w)
  <1>1. /\ A \in SUBSET (29..29) /\ B \in SUBSET (24..27)
        /\ C \in SUBSET (8..23) /\ D \in SUBSET (1..7)
    BY FieldSpan
  <1>2. W = WithParity(A \cup B \cup C \cup D)
    BY DEF oa_tc6_prepare_ctrl_header, LengthField, W
  <1>3. f \in Nat /\ f < 2 /\ a \div 2^16 \in Nat /\ n - 1 \in Nat /\ n - 1 < 128
    OBVIOUS
  <1> HIDE DEF A, B, C, D, W
  <1>4. A \cup B \cup C \cup D \in SUBSET (1..31)
    BY <1>1
  <1>5. /\ OddParity(W) /\ W \subseteq 0..31
        /\ W \cap 1..31 = A \cup B \cup C \cup D
    BY <1>2, <1>4, ParityOdd
  <1>6. W \cap {31, 30, 28} = {}
    <2>1. \A b \in {31, 30, 28} : b \in 1..31 /\ b \notin A \cup B \cup C \cup D
      BY <1>1
    <2> QED BY <1>5, <2>1
  <1>7. FieldGet(29, 29, W) = f % 2
    <2>1. \A b \in 29..29 : b \in 1..31 /\ b \notin B \cup C \cup D
      BY <1>1
    <2>2. W \cap 29..29 = A
      BY <1>1, <1>5, <2>1
    <2>3. Carries(W, 29, 29, f)
      BY <2>2 DEF Carries, A
    <2> QED BY <1>3, <2>3, Fields, FieldRead
  <1>8. FieldGet(27, 24, W) = (a \div 2^16) % 16
    <2>1. \A b \in 24..27 : b \in 1..31 /\ b \notin A \cup C \cup D
      BY <1>1
    <2>2. W \cap 24..27 = B
      BY <1>1, <1>5, <2>1
    <2>3. Carries(W, 27, 24, a \div 2^16)
      BY <2>2 DEF Carries, B
    <2> QED BY <1>3, <2>3, Fields, FieldRead
  <1>9. FieldGet(23, 8, W) = a % 2^16
    <2>1. \A b \in 8..23 : b \in 1..31 /\ b \notin A \cup B \cup D
      BY <1>1
    <2>2. W \cap 8..23 = C
      BY <1>1, <1>5, <2>1
    <2>3. Carries(W, 23, 8, a)
      BY <2>2 DEF Carries, C
    <2> QED BY <1>3, <2>3, Fields, FieldRead
  <1>10. FieldGet(7, 1, W) = (n - 1) % 128
    <2>1. \A b \in 1..7 : b \in 1..31 /\ b \notin A \cup B \cup C
      BY <1>1
    <2>2. W \cap 1..7 = D
      BY <1>1, <1>5, <2>1
    <2>3. Carries(W, 7, 1, n - 1)
      BY <2>2 DEF Carries, D
    <2> QED BY <1>3, <2>3, Fields, FieldRead
  <1>11. ((a \div 2^16) % 16) * 2^16 + (a % 2^16) = a % 2^20
    BY SMT
  <1>12. f % 2 = f /\ ((n - 1) % 128) + 1 = n
    BY <1>3
  <1>13. ReadsAs(W, a, n, w)
    BY <1>5, <1>6, <1>7, <1>8, <1>9, <1>10, <1>11, <1>12 DEF ReadsAs
  <1> QED BY <1>13 DEF W

\* An address of the memory maps: selector and register.
Sixteen(r) == r \in 0..2^16 - 1
Register(a) == a \in Nat /\ a % 2^20 = a

LEMMA Registers ==
    ASSUME NEW m \in 0..15, NEW r, Sixteen(r), NEW a, a = m * 2^16 + r
    PROVE  Register(a)
  BY SMT, 2^16 = 65536, 2^20 = 1048576 DEF Register, Sixteen

LEMMA CommandReads ==
    ASSUME NEW a, Register(a), NEW w \in BOOLEAN
    PROVE  OddParity(oa_tc6_prepare_ctrl_header(a, 1, w))
  <1>1. a \in Nat /\ 1 \in 1..128
    BY DEF Register
  <1>2. ReadsAs(oa_tc6_prepare_ctrl_header(a, 1, w), a, 1, w)
    BY <1>1, CtrlDecodes
  <1> QED BY <1>2 DEF ReadsAs

\* A word is the header of one command only.
LEMMA ReadsOneWay ==
    ASSUME NEW W, NEW a, NEW b, Register(a), Register(b), NEW n \in Int, NEW m \in Int,
           NEW w \in BOOLEAN, NEW u \in BOOLEAN, ReadsAs(W, a, n, w), ReadsAs(W, b, m, u)
    PROVE  a = b /\ n = m /\ w = u
  BY DEF ReadsAs, Register

LEMMA CommandsDiffer ==
    ASSUME NEW a, NEW b, Register(a), Register(b), a # b, NEW w \in BOOLEAN
    PROVE  oa_tc6_prepare_ctrl_header(a, 1, w) # oa_tc6_prepare_ctrl_header(b, 1, w)
  <1>1. ASSUME NEW W, ReadsAs(W, a, 1, w), ReadsAs(W, b, 1, w)
        PROVE  FALSE
    BY <1>1, ReadsOneWay
  <1>2. a \in Nat /\ b \in Nat /\ 1 \in 1..128
    BY DEF Register
  <1>3. /\ ReadsAs(oa_tc6_prepare_ctrl_header(a, 1, w), a, 1, w)
        /\ ReadsAs(oa_tc6_prepare_ctrl_header(b, 1, w), b, 1, w)
    BY <1>2, CtrlDecodes
  <1> QED BY <1>1, <1>3

\* A data header reads back as what it was made from.
LEMMA DataDecodes ==
    ASSUME NEW dv \in 0..1, NEW sv \in 0..1, NEW ev \in 0..1, NEW ebo \in 0..63,
           NEW tsc \in 0..3, NEW W, W = oa_tc6_prepare_data_header(dv, sv, ev, ebo, tsc)
    PROVE  /\ OddParity(W)
           /\ W \cap ({31, 30} \cup 22..29 \cup 15..19 \cup 1..5) = {31}
           /\ FieldGet(21, 21, W) = dv /\ FieldGet(20, 20, W) = sv
           /\ FieldGet(14, 14, W) = ev /\ FieldGet(13, 8, W) = ebo
           /\ FieldGet(7, 6, W) = tsc
  <1> DEFINE A == FieldPrep(21, 21, dv)
             B == FieldPrep(20, 20, sv)
             C == FieldPrep(14, 14, ev)
             D == FieldPrep(13, 8, ebo)
             E == FieldPrep(7, 6, tsc)
  <1>1. /\ A \in SUBSET (21..21) /\ B \in SUBSET (20..20) /\ C \in SUBSET (14..14)
        /\ D \in SUBSET (8..13) /\ E \in SUBSET (6..7)
    BY FieldSpan
  <1>2. W = WithParity({31} \cup A \cup B \cup C \cup D \cup E)
    BY DEF oa_tc6_prepare_data_header, EndOffset
  <1> HIDE DEF A, B, C, D, E
  <1>3. {31} \cup A \cup B \cup C \cup D \cup E \in SUBSET (1..31)
    BY <1>1
  <1>4. /\ OddParity(W) /\ W \subseteq 0..31
        /\ W \cap 1..31 = {31} \cup A \cup B \cup C \cup D \cup E
    BY <1>2, <1>3, ParityOdd
  <1>5. W \cap ({31, 30} \cup 22..29 \cup 15..19 \cup 1..5) = {31}
    <2>1. \A b \in {31, 30} \cup 22..29 \cup 15..19 \cup 1..5 :
            b \in 1..31 /\ b \notin A \cup B \cup C \cup D \cup E
      BY <1>1
    <2> QED BY <1>4, <2>1
  <1>6. FieldGet(21, 21, W) = dv
    <2>1. \A b \in 21..21 : b \in 1..31 /\ b \notin {31} \cup B \cup C \cup D \cup E
      BY <1>1
    <2>2. W \cap 21..21 = A
      BY <1>1, <1>4, <2>1
    <2>3. Carries(W, 21, 21, dv)
      BY <2>2 DEF Carries, A
    <2>4. dv \in Nat /\ dv % 2 = dv
      OBVIOUS
    <2> QED BY <2>3, <2>4, Fields, FieldRead
  <1>7. FieldGet(20, 20, W) = sv
    <2>1. \A b \in 20..20 : b \in 1..31 /\ b \notin {31} \cup A \cup C \cup D \cup E
      BY <1>1
    <2>2. W \cap 20..20 = B
      BY <1>1, <1>4, <2>1
    <2>3. Carries(W, 20, 20, sv)
      BY <2>2 DEF Carries, B
    <2>4. sv \in Nat /\ sv % 2 = sv
      OBVIOUS
    <2> QED BY <2>3, <2>4, Fields, FieldRead
  <1>8. FieldGet(14, 14, W) = ev
    <2>1. \A b \in 14..14 : b \in 1..31 /\ b \notin {31} \cup A \cup B \cup D \cup E
      BY <1>1
    <2>2. W \cap 14..14 = C
      BY <1>1, <1>4, <2>1
    <2>3. Carries(W, 14, 14, ev)
      BY <2>2 DEF Carries, C
    <2>4. ev \in Nat /\ ev % 2 = ev
      OBVIOUS
    <2> QED BY <2>3, <2>4, Fields, FieldRead
  <1>9. FieldGet(13, 8, W) = ebo
    <2>1. \A b \in 8..13 : b \in 1..31 /\ b \notin {31} \cup A \cup B \cup C \cup E
      BY <1>1
    <2>2. W \cap 8..13 = D
      BY <1>1, <1>4, <2>1
    <2>3. Carries(W, 13, 8, ebo)
      BY <2>2 DEF Carries, D
    <2>4. ebo \in Nat /\ ebo % 64 = ebo
      OBVIOUS
    <2> QED BY <2>3, <2>4, Fields, FieldRead
  <1>10. FieldGet(7, 6, W) = tsc
    <2>1. \A b \in 6..7 : b \in 1..31 /\ b \notin {31} \cup A \cup B \cup C \cup D
      BY <1>1
    <2>2. W \cap 6..7 = E
      BY <1>1, <1>4, <2>1
    <2>3. Carries(W, 7, 6, tsc)
      BY <2>2 DEF Carries, E
    <2>4. tsc \in Nat /\ tsc % 4 = tsc
      OBVIOUS
    <2> QED BY <2>3, <2>4, Fields, FieldRead
  <1> QED BY <1>4, <1>5, <1>6, <1>7, <1>8, <1>9, <1>10

-----------------------------------------------------------------------------
(* The theorems.                                                           *)

\* A PHY register of clause 22 has an address of the first memory map, one of
\* clause 45 an address of the map of its device.
LEMMA Clause22 ==
    ASSUME NEW r \in 0..31
    PROVE  Register(C22Address(r)) /\ Sixteen(C22Address(r))
  <1>1. Sixteen(C22Address(r)) /\ C22Address(r) = 0 * 2^16 + C22Address(r)
    BY SMT, 2^16 = 65536 DEF C22Address, Sixteen
  <1>2. 0 \in 0..15
    OBVIOUS
  <1> QED BY <1>1, <1>2, Registers

LEMMA Clause45 ==
    ASSUME NEW d \in DOMAIN oa_tc6_get_phy_c45_mms, NEW r, Sixteen(r)
    PROVE  /\ Register(C45Address(d, r))
           /\ \A q \in 0..31 : C45Address(d, r) # C22Address(q)
           /\ \A e \in DOMAIN oa_tc6_get_phy_c45_mms :
                e # d => C45Address(e, r) # C45Address(d, r)
  <1> DEFINE mms == oa_tc6_get_phy_c45_mms
  <1>1. /\ DOMAIN mms = {1, 3, 7, 13, 31}
        /\ mms[3] = 2 /\ mms[1] = 3 /\ mms[31] = 4 /\ mms[7] = 5 /\ mms[13] = 6
    BY DEF oa_tc6_get_phy_c45_mms
  <1>2. \A e \in DOMAIN mms : C45Address(e, r) = mms[e] * 2^16 + r
    BY DEF C45Address
  <1>3. \A e \in DOMAIN mms : mms[e] \in 2..6 /\ (e # d => mms[e] # mms[d])
    <2> HIDE DEF mms
    <2>1. d \in DOMAIN mms
      BY DEF mms
    <2> QED BY <1>1, <2>1
  <1>4. PICK m \in 2..6 : C45Address(d, r) = m * 2^16 + r /\ m = mms[d]
    BY <1>2, <1>3
  <1>5. m \in 0..15
    OBVIOUS
  <1>6. Register(C45Address(d, r))
    BY <1>4, <1>5, Registers
  <1>7. ASSUME NEW q \in 0..31 PROVE C45Address(d, r) # C22Address(q)
    <2>1. \A s : Sixteen(s) => m * 2^16 + r # s
      BY SMT, 2^16 = 65536 DEF Sixteen
    <2> QED BY <1>4, <2>1, Clause22
  <1>8. ASSUME NEW e \in DOMAIN mms, e # d
        PROVE  C45Address(e, r) # C45Address(d, r)
    <2>1. PICK k \in 2..6 : C45Address(e, r) = k * 2^16 + r /\ k # m
      BY <1>2, <1>3, <1>4, <1>8
    <2>2. m * 2^16 + r # k * 2^16 + r
      BY SMT, <2>1, 2^16 = 65536 DEF Sixteen
    <2> QED BY <1>4, <2>1, <2>2
  <1> QED BY <1>6, <1>7, <1>8

\* What each step converts.
LEMMA Kinds ==
    /\ CtrlHeader => kind' = "ctrl"
    /\ DataHeader => kind' = "data"
    /\ MdioC22 => kind' = "mdio"
    /\ MdioC45 => kind' = "mdio"
    /\ ChipParam => kind' = "param"
    /\ RxTimestamp => kind' = "timestamp"
    /\ RxFilter => kind' = "filter"
  <1>1. CtrlHeader => kind' = "ctrl"
    BY DEF CtrlHeader, Convert
  <1>2. DataHeader => kind' = "data"
    BY DEF DataHeader, Convert
  <1>3. MdioC22 => kind' = "mdio"
    BY DEF MdioC22, Convert
  <1>4. MdioC45 => kind' = "mdio"
    BY DEF MdioC45, Convert
  <1>5. ChipParam => kind' = "param"
    BY DEF ChipParam, Convert
  <1>6. RxTimestamp => kind' = "timestamp"
    BY DEF RxTimestamp, Convert
  <1>7. RxFilter => kind' = "filter"
    BY DEF RxFilter, Convert
  <1> QED BY <1>1, <1>2, <1>3, <1>4, <1>5, <1>6, <1>7

LEMMA DecodeStep ==
    ASSUME HeaderNext
    PROVE  HeadersDecode'
  <1> USE DEF Convert
  <1>1. CASE CtrlHeader
    <2>1. PICK a \in CommandAddresses, n \in CommandLengths, w \in BOOLEAN :
             Convert("ctrl", [addr |-> a, length |-> n, write |-> w],
                       oa_tc6_prepare_ctrl_header(a, n, w))
      BY <1>1 DEF CtrlHeader
    <2>2. a \in Nat /\ n \in 1..128
      BY HeadersAssumption
    <2>3. ReadsAs(oa_tc6_prepare_ctrl_header(a, n, w), a, n, w)
      BY <2>2, CtrlDecodes
    <2>4. /\ kind' = "ctrl" /\ in'.addr = a /\ in'.length = n /\ in'.write = w
          /\ out' = oa_tc6_prepare_ctrl_header(a, n, w)
      BY <2>1
    <2> QED BY <2>3, <2>4 DEF ReadsAs, HeadersDecode, PhyRegistersDistinct
  <1>2. CASE DataHeader
    <2>1. PICK x \in [ebo : EndOffsets, dv : 0..1, sv : 0..1, ev : 0..1, tsc : 0..3] :
             Convert("data", x, oa_tc6_prepare_data_header(x.dv, x.sv, x.ev, x.ebo, x.tsc))
      BY <1>2 DEF DataHeader
    <2>2. /\ x.dv \in 0..1 /\ x.sv \in 0..1 /\ x.ev \in 0..1 /\ x.ebo \in 0..63
          /\ x.tsc \in 0..3
      BY HeadersAssumption
    <2>3. /\ kind' = "data" /\ in' = x
          /\ out' = oa_tc6_prepare_data_header(x.dv, x.sv, x.ev, x.ebo, x.tsc)
      BY <2>1
    <2>4. /\ OddParity(out')
          /\ out' \cap ({31, 30} \cup 22..29 \cup 15..19 \cup 1..5) = {31}
          /\ FieldGet(21, 21, out') = x.dv /\ FieldGet(20, 20, out') = x.sv
          /\ FieldGet(14, 14, out') = x.ev /\ FieldGet(13, 8, out') = x.ebo
          /\ FieldGet(7, 6, out') = x.tsc
      <3> DEFINE W == oa_tc6_prepare_data_header(x.dv, x.sv, x.ev, x.ebo, x.tsc)
      <3>1. /\ OddParity(W)
            /\ W \cap ({31, 30} \cup 22..29 \cup 15..19 \cup 1..5) = {31}
            /\ FieldGet(21, 21, W) = x.dv /\ FieldGet(20, 20, W) = x.sv
            /\ FieldGet(14, 14, W) = x.ev /\ FieldGet(13, 8, W) = x.ebo
            /\ FieldGet(7, 6, W) = x.tsc
        BY <2>2, DataDecodes
      <3> QED BY <2>3, <3>1
    <2> QED BY <2>3, <2>4 DEF HeadersDecode, PhyRegistersDistinct
  <1>3. CASE MdioC22
    <2>1. PICK r \in 0..31, w \in BOOLEAN :
             Convert("mdio", [write |-> w, clause |-> 22, mmd |-> 0, reg |-> r],
                       oa_tc6_prepare_ctrl_header(C22Address(r), 1, w))
      BY <1>3 DEF MdioC22
    <2>2. /\ kind' = "mdio" /\ in'.clause = 22 /\ in'.reg = r /\ in'.write = w
          /\ out' = oa_tc6_prepare_ctrl_header(C22Address(r), 1, w)
      BY <2>1
    <2>3. Register(C22Address(r)) /\ Sixteen(r)
      BY SMT, Clause22, 2^16 = 65536 DEF Sixteen
    <2>4. OddParity(out')
      BY <2>2, <2>3, CommandReads
    <2>5. ASSUME NEW d \in DOMAIN oa_tc6_get_phy_c45_mms
          PROVE  oa_tc6_prepare_ctrl_header(C45Address(d, r), 1, w) # out'
      <3>1. Register(C45Address(d, r)) /\ C45Address(d, r) # C22Address(r)
        BY <2>3, Clause45
      <3> QED BY <2>2, <2>3, <3>1, CommandsDiffer
    <2> QED BY <2>2, <2>4, <2>5 DEF HeadersDecode, PhyRegistersDistinct
  <1>4. CASE MdioC45
    <2>1. PICK d \in DOMAIN oa_tc6_get_phy_c45_mms, r \in {0, 1, 65280, 65311, 65535},
               w \in BOOLEAN :
             Convert("mdio", [write |-> w, clause |-> 45, mmd |-> d, reg |-> r],
                       oa_tc6_prepare_ctrl_header(C45Address(d, r), 1, w))
      BY <1>4 DEF MdioC45
    <2>2. /\ kind' = "mdio" /\ in'.clause = 45 /\ in'.mmd = d /\ in'.reg = r
          /\ in'.write = w
          /\ out' = oa_tc6_prepare_ctrl_header(C45Address(d, r), 1, w)
      BY <2>1
    <2>3. Sixteen(r)
      BY SMT, 2^16 = 65536 DEF Sixteen
    <2>4. Register(C45Address(d, r))
      BY <2>3, Clause45
    <2>5. OddParity(out')
      BY <2>2, <2>4, CommandReads
    <2>6. ASSUME NEW q \in 0..31
          PROVE  oa_tc6_prepare_ctrl_header(C22Address(q), 1, w) # out'
      <3>1. Register(C22Address(q)) /\ C45Address(d, r) # C22Address(q)
        BY <2>3, Clause22, Clause45
      <3> QED BY <2>2, <2>4, <3>1, CommandsDiffer
    <2>7. ASSUME NEW e \in DOMAIN oa_tc6_get_phy_c45_mms, e # d
          PROVE  oa_tc6_prepare_ctrl_header(C45Address(e, r), 1, w) # out'
      <3>1. Register(C45Address(e, r)) /\ C45Address(e, r) # C45Address(d, r)
        BY <2>3, <2>7, Clause45
      <3> QED BY <2>2, <2>4, <3>1, CommandsDiffer
    <2> QED BY <2>2, <2>5, <2>6, <2>7 DEF HeadersDecode, PhyRegistersDistinct
  <1>5. CASE ChipParam \/ RxTimestamp \/ RxFilter
    <2>1. kind' \notin {"ctrl", "data", "mdio"}
      BY <1>5, Kinds
    <2> QED BY <2>1 DEF HeadersDecode, PhyRegistersDistinct
  <1> QED BY <1>1, <1>2, <1>3, <1>4, <1>5 DEF HeaderNext

\* What the compiler makes of a char does not show in six bits.
LEMMA OffsetInSixBits ==
    ASSUME NEW v \in 0..31, NEW s \in BOOLEAN, NEW k \in {9, 14, 40}
    PROVE  /\ (k + Offset(v, s)) % 64 = (k + IF v < 16 THEN v ELSE v - 32) % 64
           /\ (k + Offset(v, s)) % 64 \in 0..63
  <1> DEFINE o == IF v < 16 THEN v ELSE v - 32
  <1>1. o \in -16..15
    BY SMT
  <1>2. Offset(v, s) = IF s THEN o ELSE o % 256
    BY SMT DEF Offset
  <1> HIDE DEF o
  <1>3. o % 256 = o \/ o % 256 = o + 256
    BY SMT, <1>1
  <1>4. (k + o + 256) % 64 = (k + o) % 64 /\ (k + o) % 64 \in 0..63
    BY SMT, <1>1
  <1>5. (k + Offset(v, s)) % 64 = (k + o) % 64
    BY SMT, <1>1, <1>2, <1>3, <1>4
  <1> QED BY <1>4, <1>5 DEF o

LEMMA ParamStep ==
    ASSUME HeaderNext
    PROVE  ChipParams'
  <1> USE DEF Convert
  <1>1. CASE ChipParam
    <2>1. PICK v1 \in 0..31, v2 \in 0..31, s \in BOOLEAN :
             Convert("param", [v1 |-> v1, v2 |-> v2, signed |-> s],
                       <<Param1(v1, s), Param2(v2, s)>>)
      BY <1>1 DEF ChipParam
    <2> DEFINE Signed(v) == IF v < 16 THEN v ELSE v - 32
    <2>2. PICK x \in 0..63, y \in 0..63, z \in 0..63 :
            /\ x = (9 + Offset(v1, s)) % 64 /\ x = (9 + Signed(v1)) % 64
            /\ y = (14 + Offset(v1, s)) % 64 /\ y = (14 + Signed(v1)) % 64
            /\ z = (40 + Offset(v2, s)) % 64 /\ z = (40 + Signed(v2)) % 64
      <3>1. \E x \in 0..63 : x = (9 + Offset(v1, s)) % 64 /\ x = (9 + Signed(v1)) % 64
        BY OffsetInSixBits
      <3>2. \E y \in 0..63 : y = (14 + Offset(v1, s)) % 64 /\ y = (14 + Signed(v1)) % 64
        BY OffsetInSixBits
      <3>3. \E z \in 0..63 : z = (40 + Offset(v2, s)) % 64 /\ z = (40 + Signed(v2)) % 64
        BY OffsetInSixBits
      <3> HIDE DEF Signed
      <3> QED BY <3>1, <3>2, <3>3
    <2>3. /\ kind' = "param" /\ in'.v1 = v1 /\ in'.v2 = v2
          /\ out'[1] = x * 2^10 + y * 2^4 + 3 /\ out'[2] = z * 2^10
      BY <2>1, <2>2 DEF Param1, Param2
    <2>4. /\ (x * 2^10 + y * 2^4 + 3) \div 2^10 = x
          /\ ((x * 2^10 + y * 2^4 + 3) \div 2^4) % 64 = y
          /\ (x * 2^10 + y * 2^4 + 3) % 16 = 3
      BY SMT, 2^10 = 1024, 2^4 = 16
    <2> HIDE DEF Signed
    <2>5. /\ out'[1] \div 2^10 = (9 + Signed(in'.v1)) % 64
          /\ (out'[1] \div 2^4) % 64 = (14 + Signed(in'.v1)) % 64
          /\ out'[1] % 16 = 3
          /\ out'[2] = ((40 + Signed(in'.v2)) % 64) * 2^10
      BY <2>2, <2>3, <2>4
    <2> QED BY <2>3, <2>5 DEF ChipParams, Signed
  <1>2. CASE ~ChipParam
    <2>1. kind' # "param"
      BY <1>2, Kinds DEF HeaderNext
    <2> QED BY <2>1 DEF ChipParams
  <1> QED BY <1>1, <1>2

\* A behaviour converts one word: what holds of every conversion, and is not
\* said of none, holds always.
LEMMA NothingConverted ==
    HeaderInit => HeadersDecode /\ ChipParams
  BY DEF HeaderInit, HeadersDecode, PhyRegistersDistinct, ChipParams

LEMMA NothingChanged ==
    UNCHANGED headerVars =>
      HeadersDecode' = HeadersDecode /\ ChipParams' = ChipParams
  BY DEF headerVars, HeadersDecode, PhyRegistersDistinct, ChipParams

\* oa_tc6_prepare_ctrl_header and oa_tc6_prepare_data_header: what they encode
\* reads back as what they were called with, with odd parity and nothing else
\* set, for every address, length and end byte; no two PHY registers share a
\* command.
THEOREM WordsReadBack == HeaderSpec => []HeadersDecode
  <1>1. HeadersDecode /\ [HeaderNext]_headerVars => HeadersDecode'
    BY DecodeStep, NothingChanged
  <1>2. HeaderInit => HeadersDecode
    BY NothingConverted
  <1> QED BY <1>1, <1>2, PTL DEF HeaderSpec

\* set_macphy_register: the trimmed parameters are what the chip asks for,
\* whether char is signed or not.
THEOREM ParamsTrimmed == HeaderSpec => []ChipParams
  <1>1. ChipParams /\ [HeaderNext]_headerVars => ChipParams'
    BY ParamStep, NothingChanged
  <1>2. HeaderInit => ChipParams
    BY NothingConverted
  <1> QED BY <1>1, <1>2, PTL DEF HeaderSpec

\* The header of a transfer and its echo are compared as words (oa_tc6.c:330,
\* :342), here as records: two commands to registers of the memory maps have the
\* same word only if they are the same in op, addr and length.
THEOREM WordForCommand ==
    ASSUME NEW k \in Calls, NEW l \in Calls, Register(k.addr), Register(l.addr),
           oa_tc6_prepare_ctrl_header(k.addr, k.length, k.op = "write")
             = oa_tc6_prepare_ctrl_header(l.addr, l.length, l.op = "write")
    PROVE  k.op = l.op /\ k.addr = l.addr /\ k.length = l.length
  <1>1. /\ k.length \in 1..128 /\ k.op \in {"read", "write"}
        /\ l.length \in 1..128 /\ l.op \in {"read", "write"}
    BY DEF Calls, Access, OA_TC6_CTRL_MAX_REGISTERS
  <1>2. k.addr \in Nat /\ l.addr \in Nat /\ k.length \in Int /\ l.length \in Int
    BY <1>1 DEF Register
  <1>3. PICK w \in BOOLEAN, u \in BOOLEAN : w = (k.op = "write") /\ u = (l.op = "write")
    OBVIOUS
  <1> DEFINE W == oa_tc6_prepare_ctrl_header(k.addr, k.length, k.op = "write")
  <1>4. ReadsAs(W, k.addr, k.length, w) /\ ReadsAs(W, l.addr, l.length, u)
    BY <1>1, <1>2, <1>3, CtrlDecodes
  <1> HIDE DEF W
  <1>5. k.addr = l.addr /\ k.length = l.length /\ w = u
    BY <1>2, <1>4, ReadsOneWay
  <1> QED BY <1>1, <1>3, <1>5
=============================================================================
