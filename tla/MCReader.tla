-------------------------------- MODULE MCReader --------------------------------
(* The instance of ReaderPage for TLC.                                      *)
EXTENDS ReaderPage, SamplePapers, TLC
================================================================================
