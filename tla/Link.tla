-------------------------------- MODULE Link --------------------------------
(***************************************************************************)
(* What a Connection promises to the channels on it: they are opened when  *)
(* the handshake with the broker is complete, once per socket, and reset   *)
(* before the next socket is tried.                                        *)
(***************************************************************************)

VARIABLES
    link,      \* the connection, as a channel sees it
    channels   \* open: openAll has run; reset: resetAll has run since

Init ==
    /\ link = "DOWN"
    /\ channels = "reset"

(* Writes are accepted from the start of an attempt on.                    *)
Connect ==
    /\ link = "DOWN"
    /\ link' = "HANDSHAKE"
    /\ UNCHANGED channels

(* ChannelMap::openAll.  An answer that comes after the socket was shut    *)
(* down still opens the channels.                                          *)
Establish ==
    /\ link \in {"HANDSHAKE", "CLOSING"}
    /\ channels = "reset"
    /\ channels' = "open"
    /\ link' = IF link = "HANDSHAKE" THEN "UP" ELSE "CLOSING"

(* The socket is shut down and its end has not been read yet.              *)
GiveUp ==
    /\ link \in {"HANDSHAKE", "UP"}
    /\ link' = "CLOSING"
    /\ UNCHANGED channels

(* ChannelMap::resetAll                                                    *)
Drop ==
    /\ link' = "DOWN"
    /\ channels' = "reset"

Next == Connect \/ Establish \/ GiveUp \/ Drop

Spec == Init /\ [][Next]_<<link, channels>>

=============================================================================
