--------------------------- MODULE MCImageUpgrade ---------------------------
(* ImageUpgrade on a flash of ten sectors.                                   *)
EXTENDS ImageUpgrade
=============================================================================
