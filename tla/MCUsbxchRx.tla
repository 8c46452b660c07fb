----------------------------- MODULE MCUsbxchRx -----------------------------
(* Instances of UsbxchRx for TLC; the constants are given by each cfg.     *)
EXTENDS UsbxchRx
=============================================================================
