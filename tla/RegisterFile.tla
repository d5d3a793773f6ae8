---------------------------- MODULE RegisterFile ----------------------------
(***************************************************************************)
(* What the register functions of oa_tc6.c promise their callers: an       *)
(* access that reports success happened at one instant between call and    *)
(* return, to all its registers at once; one that reports an error changed *)
(* no register but those it was asked to write.                            *)
(***************************************************************************)
EXTENDS Integers

CONSTANTS Clients, Addresses, Calls, Idle

VARIABLES
  file,    \* the registers
  call,    \* per client: the access under way, or Idle
  status,  \* per client: "none", then "ok" or "failed" once it happened
  result   \* per client: what a successful read found

Span(k) == k.addr .. k.addr + k.length - 1

Content(k) == [i \in 1..k.length |-> file[k.addr + i - 1]]

Init == /\ file \in [Addresses -> {0}]
        /\ call = [c \in Clients |-> Idle]
        /\ status = [c \in Clients |-> "none"]
        /\ result = [c \in Clients |-> <<>>]

Invoke(c) == /\ call[c] = Idle
             /\ \E k \in Calls : call' = [call EXCEPT ![c] = k]
             /\ UNCHANGED <<file, status, result>>

Succeed(c) == LET k == call[c] IN
  /\ k # Idle /\ status[c] = "none"
  /\ status' = [status EXCEPT ![c] = "ok"]
  /\ IF k.op = "write"
     THEN /\ file' = [a \in Addresses |-> IF a \in Span(k) THEN k.value ELSE file[a]]
          /\ UNCHANGED result
     ELSE /\ result' = [result EXCEPT ![c] = Content(k)]
          /\ UNCHANGED file
  /\ UNCHANGED call

Fail(c) == LET k == call[c] IN
  /\ k # Idle /\ status[c] = "none"
  /\ status' = [status EXCEPT ![c] = "failed"]
  /\ \A a \in Addresses :
       file'[a] # file[a] => k.op = "write" /\ a \in Span(k)
  /\ UNCHANGED <<call, result>>

Return(c) == /\ call[c] # Idle /\ status[c] # "none"
             /\ call' = [call EXCEPT ![c] = Idle]
             /\ status' = [status EXCEPT ![c] = "none"]
             /\ result' = [result EXCEPT ![c] = <<>>]
             /\ UNCHANGED file

Next == \E c \in Clients : Invoke(c) \/ Succeed(c) \/ Fail(c) \/ Return(c)

Spec == Init /\ [][Next]_<<file, call, status, result>>
=============================================================================
