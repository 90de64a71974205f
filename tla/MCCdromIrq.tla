------------------------------ MODULE MCCdromIrq ------------------------------
(* Instances of the CD-ROM controller on the bus for TLC.                  *)
EXTENDS CdromIrq

AllCommands ==
    {"Nop", "Setloc", "Read", "MotorOn", "Stop", "Pause", "Init", "Mute",
     "Demute", "Setfilter", "Setmode", "Getparam", "Getloc", "GetTN", "GetTD",
     "Seek", "Test", "GetID", "ReadTOC", "Unknown"}

AllEnabled == {Bits}
=============================================================================
