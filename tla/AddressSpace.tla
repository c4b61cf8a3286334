----------------------------- MODULE AddressSpace -----------------------------
(* What the page-table manager promises: a page translates to the frame it   *)
(* was last mapped to, and mapping a page changes no other page.              *)

CONSTANTS Pages, Frames, None

VARIABLES
    mapping,        \* page -> the frame it translates to, None if it faults
    request         \* the map that is under way: <<page, frame>>, or <<>>

spaceVars == <<mapping, request>>

SpaceInit == mapping = [v \in Pages |-> None] /\ request = <<>>

Ask == /\ request = <<>>
       /\ request' # <<>> /\ request'[1] \in Pages /\ request'[2] \in Frames
       /\ UNCHANGED mapping

Answer == /\ request # <<>>
          /\ mapping' = [mapping EXCEPT ![request[1]] = request[2]]
          /\ request' = <<>>

\* A fault or the want of frames leaves the page as it was.
GiveUp == request # <<>> /\ request' = <<>> /\ UNCHANGED mapping

SpaceNext == Ask \/ Answer \/ GiveUp

SpaceSpec == SpaceInit /\ [][SpaceNext]_spaceVars

=============================================================================
