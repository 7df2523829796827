----------------------------- MODULE MCRemoval -----------------------------
(***************************************************************************)
(* Removal on the record shapes of the product: a plain proxy, every       *)
(* interrupted subscription or identity operation, a tunnel, and the       *)
(* historical HTTPS lineages.                                              *)
(***************************************************************************)
EXTENDS Removal

AllShapes ==
    {{}, {"tunnel"}, {"enablement"},
     {"serving", "resources", "rotation"},
     {"serving", "resources", "repair"},
     {"serving", "resources", "retirement"},
     {"serving", "resources", "renewal"},
     {"startup", "identity"},
     {"startup", "identity", "identitySubscription", "serving", "resources"}}
=============================================================================
