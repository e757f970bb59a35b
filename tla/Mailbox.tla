------------------------------ MODULE Mailbox ------------------------------
(***************************************************************************)
(* What the message passing of ipc.c promises a process: one bounded       *)
(* mailbox per incarnation, written only by those who hold a send          *)
(* capability for that very incarnation, read in order, and gone with its  *)
(* owner.  Module Ipc shows that the linked lists of the code keep this    *)
(* promise.                                                                *)
(***************************************************************************)
EXTENDS Naturals, SequencesExt

CONSTANTS Pids,       \* process slots
          MaxQueue,   \* IPC_MAX_QUEUE_SIZE (64)
          ANY,        \* IPC_PID_ANY: receive from whoever wrote first
          CLOSED      \* the mailbox of a slot that holds no process

VARIABLES box,        \* what waits in every mailbox, oldest first
          may,        \* the pairs <<owner, target>> of send capabilities
          told,       \* what the last call told its caller
          serial      \* the number of the next message

mailVars == <<box, may, told, serial>>

Init == /\ box = [p \in Pids |-> CLOSED]
        /\ may = {}
        /\ told = "nothing"
        /\ serial = 1

Born(p) == /\ UNCHANGED <<may, told, serial>>
           /\ box[p] = CLOSED
           /\ box' = [box EXCEPT ![p] = <<>>]

(* Nothing of a dead process outlives it: neither its mail nor a right to  *)
(* write to its pid.                                                       *)
Gone(p) == /\ UNCHANGED <<told, serial>>
           /\ may' = {m \in may : m[1] # p /\ m[2] # p}
           /\ box[p] # CLOSED
           /\ box' = [box EXCEPT ![p] = CLOSED]

Wire(p, q) == /\ UNCHANGED <<told, serial>>
              /\ may' = may \cup {<<p, q>>}
              /\ box[p] # CLOSED /\ box[q] # CLOSED
              /\ UNCHANGED box
Unwire(p, q) == /\ UNCHANGED <<told, serial>>
                /\ may' = may \ {<<p, q>>}
                /\ UNCHANGED box

Letter(p) == [sender_id |-> p, message_id |-> serial]

(* A message is told sent exactly when it was put last in the mailbox.     *)
Post(p, q) == /\ told' = "sent"
              /\ <<p, q>> \in may
              /\ UNCHANGED may
              /\ serial' = serial + 1
              /\ box[q] # CLOSED
              /\ Len(box[q]) < MaxQueue
              /\ box' = [box EXCEPT ![q] = Append(@, Letter(p))]
Refuse == /\ told' = "refused"
          /\ serial' \in {serial, serial + 1}
          /\ UNCHANGED <<may, box>>

(* The caller gets the oldest message of the sender it asks for, once.     *)
From(b, f) == {i \in DOMAIN b : f \in {ANY, b[i].sender_id}}
Take(p, f) == /\ told' = "got"
              /\ UNCHANGED <<may, serial>>
              /\ box[p] # CLOSED
              /\ \E i \in From(box[p], f) :
                   /\ \A j \in From(box[p], f) : i <= j
                   /\ box' = [box EXCEPT ![p] = RemoveAt(@, i)]
Nothing(p, f) == /\ told' = "nothing"
                 /\ UNCHANGED <<may, serial>>
                 /\ box[p] # CLOSED
                 /\ From(box[p], f) = {}
                 /\ UNCHANGED box

Next ==
  \/ Refuse
  \/ \E p \in Pids :
       \/ Born(p) \/ Gone(p)
       \/ \E q \in Pids : Wire(p, q) \/ Unwire(p, q) \/ Post(p, q)
       \/ \E f \in Pids \cup {ANY} : Take(p, f) \/ Nothing(p, f)

Spec == Init /\ [][Next]_mailVars
=============================================================================
