---------------------------- MODULE MCWorkspace ----------------------------
(* Names for Workspace: bus and buse, which have the same plural, and bus_, *)
(* whose identifiers are those of bus.                                     *)
EXTENDS Workspace

bus == << [stem |-> "bus", ending |-> ""] >>
buse == << [stem |-> "bus", ending |-> "e"] >>
bus_ == << [stem |-> "bus", ending |-> ""], NoWord >>

MCPlurals == {bus, buse}
MCIdentifiers == {bus, bus_}
MCSibilants == {"bus"}
MCRpcs == {"Create", "Delete"}
MCTemplate == {"Create"}
MCIncluded == {}

=============================================================================
