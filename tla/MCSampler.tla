------------------------------- MODULE MCSampler -------------------------------
(***************************************************************************)
(* Two devices, one of which may come and go; counters of two bits.        *)
(***************************************************************************)
EXTENDS Sampler

CONSTANTS eth, usb

MCDevices == {eth, usb}
MCFixed   == {eth}
=============================================================================
