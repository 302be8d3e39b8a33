-------------------------- MODULE MCFirmwareUpdate ---------------------------
(* FirmwareUpdate with interchangeable images. *)
EXTENDS FirmwareUpdate, TLC

Images == Permutations(Image)
=============================================================================
