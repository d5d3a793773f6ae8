---------------------------- MODULE CtrlTransfer ----------------------------
(***************************************************************************)
(* Control transfers: the register functions of oa_tc6.c, by which several *)
(* threads share one pair of SPI buffers under spi_ctrl_lock, and the      *)
(* callers that turn their result into one of their own: the MDIO bus, the *)
(* character device and the register tool that uses it.                    *)
(***************************************************************************)
EXTENDS Integers

CONSTANTS
  Clients,      \* threads that use registers
  Nobody, Idle, \* no owner of the lock; no access under way
  Phy22, Phy45, Chardev, Tool,  \* those that call through the MDIO bus (clause
                \* 22 and 45), the ioctl of lan865x.c, and the register tool
  Starts, Lengths, Values,      \* accesses: first register, number, value
  MaxLength,    \* words of the buffers
  MaxCalls,     \* bound: accesses in a behaviour
  Faults        \* of {"spi", "mosi", "miso"}: a failing spi_sync, a word
                \* damaged on its way out, a word damaged on its way in

OA_TC6_CTRL_MAX_REGISTERS == 128
Corrupt == -1

EIO == -5
EINVAL == -22
EPROTO == -71
EOPNOTSUPP == -95

ASSUME ClientsAssumption ==
  /\ Phy22 \cup Phy45 \cup Chardev \cup Tool \subseteq Clients
  /\ Nobody \notin Clients
\* The register tool is a program of its own; the other callers are in the kernel.
ASSUME KindsApart == Tool \cap (Phy22 \cup Phy45 \cup Chardev) = {}
\* The buffers hold every block of registers that is let through (oa_tc6.c:107).
ASSUME AccessAssumption ==
  /\ Starts \subseteq Nat /\ Lengths \subseteq Nat /\ Values \subseteq Nat
  /\ MaxLength \in Nat /\ MaxCalls \in Nat
  /\ \A n \in Lengths : n <= OA_TC6_CTRL_MAX_REGISTERS => n <= MaxLength
\* The tool writes the lower 16 bits of a value.
ASSUME ToolAssumption == Tool # {} => \A v \in Values : v % 2^16 \in Values

Words == 1..MaxLength
Addresses == {a + i : a \in Starts, i \in 0..MaxLength - 1}
Single == Phy22 \cup Phy45 \cup Chardev \cup Tool

VARIABLES
  regs,          \* the MAC-PHY's registers
  tx, rx,        \* spi_ctrl_tx_buf, spi_ctrl_rx_buf: a header and data words
  holder,        \* owner of spi_ctrl_lock
  pc,            \* per client: the step of its register function
  req,           \* per client: the arguments
  ret, value,    \* per client: what the register function returned
  answer,        \* per client: what its caller made of that
  calls          \* accesses begun

vars == <<regs, tx, rx, holder, pc, req, ret, value, answer, calls>>

Access(lengths) == [op: {"read", "write"}, addr: Starts, length: lengths, value: Values]
Calls == Access(Lengths \cap 1..OA_TC6_CTRL_MAX_REGISTERS)

ASSUME IdleAssumption == Idle \notin Calls

Blank == [header |-> [op |-> "none", addr |-> 0, length |-> 0],
          data |-> [i \in Words |-> 0]]

TypeOK ==
  /\ regs \in [Addresses -> Values \cup {0, Corrupt}]
  /\ tx.data \in [Words -> Values \cup {0}]
  /\ rx.data \in [Words -> Values \cup {0, Corrupt}]
  /\ holder \in Clients \cup {Nobody}
  /\ pc \in [Clients -> {"idle", "lock", "prepare", "transfer", "reply", "unlock"}]
  /\ \A c \in Clients : pc[c] # "idle" => req[c] \in Calls
  /\ ret \in [Clients -> {0, EIO, EINVAL, EPROTO, EOPNOTSUPP}]
  /\ calls \in 0..MaxCalls

Init ==
  /\ regs = [a \in Addresses |-> 0]
  /\ tx = Blank /\ rx = Blank
  /\ holder = Nobody
  /\ pc = [c \in Clients |-> "idle"]
  /\ req = [c \in Clients |-> Idle]
  /\ ret = [c \in Clients |-> 0]
  /\ value = [c \in Clients |-> <<>>]
  /\ answer = [c \in Clients |-> 0]
  /\ calls = 0

Goto(c, l) == pc' = [pc EXCEPT ![c] = l]

-----------------------------------------------------------------------------
(* What the callers make of a result.                                      *)

\* bool ret in oa_tc6_mdiobus_read: every error becomes 1.
C22Answer(r, v) == IF r # 0 THEN 1 ELSE v

C45Answer_Bool(r, v) == C22Answer(r, v)
C45Answer(r, v) == IF r # 0 THEN r ELSE v

IoctlAnswer(r, v) == IF r < 0 THEN r ELSE v

\* do_ioctl of the register tool: 0 on failure, otherwise 16 bits; so it writes.
Argument(c, v) == IF c \in Tool THEN v % 2^16 ELSE v
ToolAnswer(r, v) == IF IoctlAnswer(r, v) < 0 THEN 0 ELSE v % 2^16

Answer(c, r, v) ==
  IF req[c].op = "write" /\ c \notin Tool THEN r
  ELSE IF c \in Phy22 THEN C22Answer(r, v)
  ELSE IF c \in Phy45 THEN C45Answer(r, v)
  ELSE IF c \in Chardev THEN IoctlAnswer(r, v)
  ELSE IF c \in Tool THEN IF req[c].op = "write" THEN 0 ELSE ToolAnswer(r, v)
  ELSE r

-----------------------------------------------------------------------------
(* The register functions.                                                 *)

Legal_Zero(n) == n <= OA_TC6_CTRL_MAX_REGISTERS
Legal(n) == n # 0 /\ n <= OA_TC6_CTRL_MAX_REGISTERS

Begin(c) ==
  /\ pc[c] = "idle" /\ calls < MaxCalls
  /\ \E k \in Access({n \in Lengths : Legal(n)}) :
       /\ c \in Single => k.length = 1
       /\ req' = [req EXCEPT ![c] = [k EXCEPT !.value = Argument(c, k.value)]]
  /\ calls' = calls + 1
  /\ Goto(c, "lock")
  /\ UNCHANGED <<regs, tx, rx, holder, ret, value, answer>>

\* A length out of range, or a clause 45 device without a register map.
Refuse(c) ==
  /\ pc[c] = "idle" /\ calls < MaxCalls
  /\ \E e \in {EINVAL, EOPNOTSUPP} :
       /\ IF e = EINVAL THEN c \notin Single /\ \E n \in Lengths : ~Legal(n)
                        ELSE c \in Phy45
       /\ ret' = [ret EXCEPT ![c] = e]
       /\ answer' = [answer EXCEPT ![c] = e]
  /\ calls' = calls + 1
  /\ UNCHANGED <<regs, tx, rx, holder, pc, req, value>>

LockFree_Always == TRUE
LockFree == holder = Nobody

Lock(c) ==
  /\ pc[c] = "lock" /\ LockFree
  /\ holder' = c
  /\ Goto(c, "prepare")
  /\ UNCHANGED <<regs, tx, rx, req, ret, value, answer, calls>>

Prepare(c) == LET k == req[c] IN
  /\ pc[c] = "prepare"
  /\ tx' = [header |-> [op |-> k.op, addr |-> k.addr, length |-> k.length],
            data |-> [i \in Words |-> IF k.op = "write" /\ i <= k.length
                                      THEN k.value ELSE tx.data[i]]]
  /\ Goto(c, "transfer")
  /\ UNCHANGED <<regs, rx, holder, req, ret, value, answer, calls>>

-----------------------------------------------------------------------------
(* The MAC-PHY takes the command it receives and echoes it.                *)

Taken(h, data) == [a \in Addresses |->
  IF h.op = "write" /\ a \in h.addr .. h.addr + h.length - 1
  THEN data[a - h.addr + 1] ELSE regs[a]]

Echo(h, data) == [header |-> h, data |-> [i \in Words |->
  IF i > h.length THEN rx.data[i]
  ELSE IF h.op = "write" THEN data[i] ELSE regs[h.addr + i - 1]]]

Damaged(b, i) == IF i = 0 THEN [b EXCEPT !.header.op = "corrupt"]
                          ELSE [b EXCEPT !.data[i] = Corrupt]

\* spi_sync: all went well; a damaged header, which the MAC-PHY ignores; a
\* damaged word of a write, which it takes and echoes; a damaged echo.
Exchange(h) ==
  \/ regs' = Taken(h, tx.data) /\ rx' = Echo(h, tx.data)
  \/ /\ "mosi" \in Faults
     /\ \/ UNCHANGED regs /\ rx' = Damaged(rx, 0)
        \/ \E i \in 1..h.length : LET sent == Damaged(tx, i).data IN
             /\ h.op = "write"
             /\ regs' = Taken(h, sent) /\ rx' = Echo(h, sent)
  \/ /\ "miso" \in Faults
     /\ regs' = Taken(h, tx.data)
     /\ \E i \in 0..h.length : /\ h.op = "write" \/ i = 0
                               /\ rx' = Damaged(Echo(h, tx.data), i)

Transfer(c) ==
  /\ pc[c] = "transfer"
  /\ Exchange(tx.header)
  /\ Goto(c, "reply")
  /\ UNCHANGED <<tx, holder, req, ret, value, answer, calls>>

\* spi_sync reports an error; the command may have reached the MAC-PHY.
TransferFails(c) ==
  /\ pc[c] = "transfer" /\ "spi" \in Faults
  /\ regs' \in {regs, Taken(tx.header, tx.data)}
  /\ ret' = [ret EXCEPT ![c] = EIO]
  /\ Goto(c, "unlock")
  /\ UNCHANGED <<tx, rx, holder, req, value, answer, calls>>

-----------------------------------------------------------------------------
U8(n) == n % 256
oa_tc6_calculate_ctrl_buf_size(n) == 4 + 4 * n + 4

\* Words compared by memcmp: its size parameter is a u8. For a negative size
\* (converted to size_t) the comparison runs out of the buffers.
ComparedBytes(n) == U8(oa_tc6_calculate_ctrl_buf_size(n)) - 4

SameBytes(n) == /\ n >= 4 => tx.header = rx.header
                /\ \A i \in 1..(n \div 4) - 1 : tx.data[i] = rx.data[i]

EchoMatches(k) == IF k.op = "write" THEN SameBytes(ComparedBytes(k.length))
                                    ELSE tx.header = rx.header

Reply(c) == LET k == req[c] IN
  /\ pc[c] = "reply"
  /\ \E ok \in IF k.op = "write" /\ ComparedBytes(k.length) < 0
               THEN BOOLEAN ELSE {EchoMatches(k)} :
       /\ ret' = [ret EXCEPT ![c] = IF ok THEN 0 ELSE EPROTO]
       /\ value' = [value EXCEPT ![c] = IF ok /\ k.op = "read"
                                        THEN [i \in 1..k.length |-> rx.data[i]]
                                        ELSE <<>>]
  /\ Goto(c, "unlock")
  /\ UNCHANGED <<regs, tx, rx, holder, req, answer, calls>>

Released_OnSuccess(c) == IF ret[c] = 0 THEN Nobody ELSE holder
Released(c) == Nobody

Unlock(c) ==
  /\ pc[c] = "unlock"
  /\ holder' = Released(c)
  /\ answer' = [answer EXCEPT ![c] =
       Answer(c, ret[c], IF ret[c] = 0 /\ req[c].op = "read" THEN value[c][1] ELSE 0)]
  /\ value' = [value EXCEPT ![c] = <<>>]
  /\ req' = [req EXCEPT ![c] = Idle]
  /\ Goto(c, "idle")
  /\ UNCHANGED <<regs, tx, rx, ret, calls>>

Step(c) == Lock(c) \/ Prepare(c) \/ Transfer(c) \/ TransferFails(c) \/ Reply(c) \/ Unlock(c)

Next == \E c \in Clients : Begin(c) \/ Refuse(c) \/ Step(c)

Spec == Init /\ [][Next]_vars

\* A kernel thread that runs a register function goes on; a mutex is handed
\* over to those that wait for it.
FairSpec == Spec /\ \A c \in Clients : WF_vars(Step(c)) /\ SF_vars(Lock(c))

-----------------------------------------------------------------------------
(* Correctness.                                                            *)

Accepted(c) == EchoMatches(req[c])

\* The access happens when the MAC-PHY takes the command; the echo in the
\* receive buffer already says whether it will be reported as done.
CallStatus(c) ==
  IF pc[c] = "reply" THEN IF Accepted(c) THEN "ok" ELSE "failed"
  ELSE IF pc[c] = "unlock" THEN IF ret[c] = 0 THEN "ok" ELSE "failed"
  ELSE "none"

CallResult(c) ==
  IF pc[c] = "reply" /\ Accepted(c) /\ req[c].op = "read"
  THEN [i \in 1..req[c].length |-> rx.data[i]] ELSE value[c]

File == INSTANCE RegisterFile WITH
  file <- regs,
  call <- [c \in Clients |-> IF pc[c] = "idle" THEN Idle ELSE req[c]],
  status <- [c \in Clients |-> CallStatus(c)],
  result <- [c \in Clients |-> CallResult(c)]

\* Whatever the link does to a command or its echo, an access that reports
\* success was made at one instant, and a failed one left all other registers
\* alone (oa_tc6_perform_ctrl under spi_ctrl_lock).
AccessesAtomic == File!Spec

\* What every kind of caller makes of an access that was refused or reported as
\* failed: the driver's own calls, clause 45 of the MDIO bus and the ioctl pass
\* the error on as it is; a read of clause 22 answers 1, which is a register's
\* value and no error (oa_tc6.c:497); the register tool answers 0.
ErrorsAnswered ==
  \A c \in Clients : ret[c] # 0 /\ pc[c] = "idle" =>
    IF c \in Tool THEN answer[c] = 0
    ELSE answer[c] = ret[c] \/ (c \in Phy22 /\ answer[c] = 1)

\* Every access ends and gives the lock back, whichever step failed.
CallsReturn == \A c \in Clients : pc[c] # "idle" ~> pc[c] = "idle"

\* Comment at oa_tc6.c:336: a write is only reported as done if all of its echo
\* matches what was sent.
EchoChecked ==
  \A c \in Clients : pc[c] = "unlock" /\ ret[c] = 0 /\ req[c].op = "write" =>
    SameBytes(4 + 4 * req[c].length)

\* oa_tc6.c:429: the register functions return "0 on success otherwise failed"; the PHY
\* layer must hear of the failure too, also on the clause 22 bus.
FailureReachesPhy == \A c \in Phy22 : ret[c] # 0 /\ pc[c] = "idle" => answer[c] < 0

\* ioctl.h:14 and ioctl.c:68: what the tool shows is the register's value.
ToolShowsRegister == [][\A c \in Tool :
  pc[c] = "unlock" /\ ret[c] = 0 /\ req[c].op = "read" /\ pc'[c] = "idle"
    => answer'[c] = value[c][1]]_vars
=============================================================================
