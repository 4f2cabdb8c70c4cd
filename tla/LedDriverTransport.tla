-------------------------- MODULE LedDriverTransport --------------------------
(***************************************************************************)
(* LedDriver implements FrameTransport.  The wire holds one batch, and one *)
(* more for each completion raised in breach of the contract (MaxSpurious);*)
(* frames are withdrawn if that is the backend's way of granting a target  *)
(* again (Regrant).                                                        *)
(*                                                                         *)
(* A frame counts as published when the lease is (the dirty bit follows),  *)
(* and a batch as launched when submit_channels accepts it (InFlight, the  *)
(* pending bits and the phases follow).                                    *)
(***************************************************************************)
EXTENDS LedDriver

Transport == INSTANCE FrameTransport
  WITH waiting     <- frame,
       uncommitted <- dirty \cup Marking,
       committed   <- pending \ Recording,
       onWire      <- wire,
       number      <- Advanced(Recording),
       Depth       <- 1 + MaxSpurious,
       Withdraws   <- "withdrawn" \in Regrant

\* Every behaviour of the driver, whatever calls fail, are refused or are
\* overtaken by the hardware, is a behaviour of FrameTransport: a frame leaves
\* only in the launch of a whole committed set, a second batch is on the wire only
\* after a false completion, and a frame carries the number of its channel's
\* launches so far.
ImplementsTransport == Transport!Spec

\* ... and with the fairness of the firmware's loop every frame published is
\* committed, every commit is launched and every launch finished.
ImplementsFairness == Transport!Fairness

===============================================================================
