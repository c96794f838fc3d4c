-------------------------- MODULE MCArchiveDispatch --------------------------
(***************************************************************************)
(* Instances of ArchiveDispatch, and with it of DeliveryLock, for TLC.     *)
(***************************************************************************)
EXTENDS ArchiveDispatch, TLC

CONSTANTS f1, f2, r1

OneFast == {Dispatcher}
OneBulk == {Sync}
OneReceiver == {r1}
TwoFiles == {f1, f2}
=============================================================================
