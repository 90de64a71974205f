------------------------------- MODULE MCCdrom -------------------------------
(* Instances of the CD-ROM controller for TLC.                             *)
EXTENDS Cdrom

\* The commands that start, stop, move and fail a read; the others only
\* report or set something and are issued in MCCdromIrq.
StreamCommands == {"Setloc", "Read", "Pause", "Stop", "Seek", "Unknown"}

\* interrupt_enable only gates the IRQ line: one mask besides the initial one.
AllEnabled == {Bits}
=============================================================================
