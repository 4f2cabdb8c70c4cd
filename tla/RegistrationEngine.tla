-------------------------- MODULE RegistrationEngine --------------------------
(***************************************************************************)
(* Registration implements the one-step configuration of LedDriver: its     *)
(* loops, however they end, look to the rest of the driver like one of the  *)
(* five outcomes of ConfigurePrepared.  So what LedDriver checks and proves *)
(* of a configured driver holds of one configured by this code.            *)
(***************************************************************************)
EXTENDS Registration

\* A record counts as registered when the commit of its plan is complete.
RegisteredIds == IF stage = "commit" THEN {} ELSE Populated(table)

Engine == INSTANCE LedDriver
  WITH PhaseModulus <- 1, MaxSpurious <- 0, Lossy <- FALSE, Regrant <- {},
       DebugAssertions <- FALSE, IdsWrapped <- FALSE,
       typestate  <- "Configuring",
       registered <- RegisteredIds,
       result     <- [at  |-> IF outcome \in {"EmptyConfiguration", "AlreadyConfigured"}
                              THEN "api" ELSE "register",
                      err |-> outcome],
       phase      <- [c \in 0 .. MaxChannels - 1 |-> 0],
       transfer   <- [inFlight |-> FALSE, dmaComplete |-> FALSE, submitted |-> {}],
       dirty <- {}, pending <- {}, violation <- FALSE,
       call       <- [at |-> "none", batch |-> {}, target |-> {}, phase |-> 0],
       leased <- {}, frame <- [c \in 0 .. MaxChannels - 1 |-> 1],
       wire <- <<>>, signals <- 0, events <- 0, spurious <- 0

\* This step ends a configure_prepared call.
ConfigureReturns == stage \in {"idle", "plan", "commit"} /\ stage' = "idle"

Ids(bindings) == {bindings[i].logical : i \in 1 .. Len(bindings)}

\* A configure_prepared call returns what LedDriver says it may for the logical
\* channels and sizes of the setup, with the lifecycle and the registered
\* channels LedDriver says, and no other step changes those.
ImplementsConfigure ==
  [][IF ConfigureReturns THEN Engine!ConfigurePrepared(Ids(setup), Oversized(setup))
                         ELSE UNCHANGED <<lifecycle, RegisteredIds>>]_vars

===============================================================================
