-------------------------- MODULE MCCaptureSession --------------------------
(* CaptureSession for TLC: two attempts of every activity, a window of a tick. *)
EXTENDS CaptureSession
=============================================================================
