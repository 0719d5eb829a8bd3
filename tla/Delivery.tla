------------------------------ MODULE Delivery ------------------------------
(***************************************************************************)
(* What FileTransfer promises of one transfer to the listeners of its two  *)
(* ends.  Both ends may forget it and be told that it failed at any time,  *)
(* and the sender may take it up again; but a transfer said to be          *)
(* completed or cancelled is over, a file said to be received is the one   *)
(* that was offered, or the beginning of it if it could not be written in  *)
(* full, and "completed" is said of a transfer that went straight only     *)
(* when all of it has been sent.                                           *)
(***************************************************************************)
EXTENDS Integers, Sequences

CONSTANTS
    Original,  \* the contents of the file
    Whole      \* all of its bytes

VARIABLES
    straight,  \* accepted once and never resumed?
    sending,   \* does the sender hold the transfer?
    sEnd,      \* how the sender was told it ended
    sent,      \* the bytes that went out
    receiving, \* does the receiver hold the transfer?
    rEnd,      \* how the receiver was told it ended
    final,     \* the file received
    short      \* could it not be written in full?

sender == <<sending, sEnd, sent>>
receiver == <<receiving, rEnd, final, short>>
dvars == <<straight, sender, receiver>>

Over == {"completed", "cancelled"}

Init ==
    /\ straight = TRUE
    /\ sending = FALSE /\ sEnd = "none" /\ sent = {}
    /\ receiving = FALSE /\ rEnd = "none" /\ final = <<>> /\ short = FALSE

-----------------------------------------------------------------------------
(* The sender's end. *)

\* It begins or goes on, from memory or from disk, and some of the file goes out.
Send ==
    /\ sEnd \notin Over
    /\ sending'
    /\ sent \subseteq sent' /\ sent' \subseteq Whole
    /\ UNCHANGED sEnd

\* A rejected offer and a restart end it without a word.
ForgetOutgoing == sending /\ ~sending' /\ UNCHANGED <<sEnd, sent>>

EndOutgoing(how) ==
    /\ sEnd \notin Over
    /\ ~sending' /\ sEnd' = how
    /\ UNCHANGED sent

Complete == (straight => sent = Whole) /\ EndOutgoing("completed")

Outgoing ==
    /\ Send \/ ForgetOutgoing \/ Complete \/ EndOutgoing("cancelled") \/ EndOutgoing("failed")
    /\ UNCHANGED <<straight, receiver>>

-----------------------------------------------------------------------------
(* The receiver's end, which is told once. *)

Offer == rEnd = "none" /\ ~receiving /\ receiving' /\ UNCHANGED <<rEnd, final, short>>

ForgetIncoming == receiving /\ ~receiving' /\ UNCHANGED <<rEnd, final, short>>

\* The file is open and the disk does not take what is written to it.
FallShort == receiving /\ short' = TRUE /\ UNCHANGED <<receiving, rEnd, final>>

EndIncoming(how) == receiving /\ ~receiving' /\ rEnd' = how

Receive ==
    /\ EndIncoming("received")
    /\ \/ ~short' /\ final' = Original
       \/ short' /\ \E n \in 0 .. Len(Original) - 1 : final' = SubSeq(Original, 1, n)

Incoming ==
    /\ \/ Offer \/ ForgetIncoming \/ FallShort \/ Receive
       \/ (EndIncoming("cancelled") \/ EndIncoming("failed")) /\ UNCHANGED <<final, short>>
    /\ UNCHANGED <<straight, sender>>

-----------------------------------------------------------------------------

\* A second acceptance or a resumption.
Deviate == straight /\ ~straight' /\ UNCHANGED <<sender, receiver>>

Next == Outgoing \/ Incoming \/ Deviate

Spec == Init /\ [][Next]_dvars
=============================================================================
