----------------------------- MODULE MCUsbDevice -----------------------------
(***************************************************************************)
(* Descriptors of one and of two packets, an IN endpoint of 64 or of 512   *)
(* bytes, an OUT endpoint of 64 bytes or one too large for the buffers or  *)
(* for Caps::new, one message during a control transfer, and everything    *)
(* that may upset the driver.                                              *)
(***************************************************************************)
EXTENDS UsbDevice

MCOutSizes == {64, 1024, 2048}
MCInSizes == {64, 512}
MCPackets == {1, 2}
MCUpsets == {"request", "missing", "setup", "fast", "long", "stale", "slow", "two"}

=============================================================================
