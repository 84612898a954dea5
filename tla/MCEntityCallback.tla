-------------------------- MODULE MCEntityCallback --------------------------
(* Instances of EntityCallback for TLC: the entities are a door, whose class *)
(* derives from CBaseToggle, and a box, whose class does not.                *)
EXTENDS EntityCallback

CONSTANTS door, box

DoorAndBox == {door, box}
Door       == {door}

=============================================================================
