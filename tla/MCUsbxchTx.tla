----------------------------- MODULE MCUsbxchTx -----------------------------
(* Instances of UsbxchTx for TLC; the constants are given by each cfg.     *)
EXTENDS UsbxchTx
=============================================================================
