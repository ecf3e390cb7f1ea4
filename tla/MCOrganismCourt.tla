--------------------------- MODULE MCOrganismCourt ---------------------------
(***************************************************************************)
(* An instance of the court for TLC.                                       *)
(***************************************************************************)
EXTENDS OrganismCourt

Calm == [drift_identity |-> 0, drift_policy |-> 0, delta_viability |-> 0,
         delta_purity |-> 0, delta_modification |-> 0, erosion |-> 4000,
         renorm_residual |-> 0, flow_valid |-> TRUE, rollback |-> FALSE,
         viability |-> 8000]

\* The purity of memory breaks down.
Stain == [Calm EXCEPT !.delta_purity = 7100, !.delta_viability = -300,
                      !.drift_policy = 100]

CalmAndStain == {Calm, Stain}
=============================================================================
