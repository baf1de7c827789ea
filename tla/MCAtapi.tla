------------------------------ MODULE MCAtapi ------------------------------
(***************************************************************************)
(* Atapi on machines that differ in what the driver can meet: nothing at   *)
(* all, a slave alone, drives of both kinds on a channel, two ATAPI drives *)
(* sharing a channel, and two on different channels whose interrupts set   *)
(* the same flag.  One request for two sectors is both a transfer of two   *)
(* blocks (atapi_read) and two reads in a row (read_sectors).              *)
(***************************************************************************)
EXTENDS Atapi

Machine(master0, slave0, master1, slave1) ==
  [p \in Positions |-> CASE p = <<0, 0>> -> master0 [] p = <<0, 1>> -> slave0
                         [] p = <<1, 0>> -> master1 [] p = <<1, 1>> -> slave1]

TestMachines == {
  Machine("none", "none", "none", "none"),
  Machine("none", "ata", "none", "none"),
  Machine("ata", IDE_ATAPI, "none", "none"),
  Machine(IDE_ATAPI, IDE_ATAPI, "none", "none"),
  Machine(IDE_ATAPI, "none", IDE_ATAPI, "none"),
  Machine("none", "none", "ata", IDE_ATAPI)}
=============================================================================
