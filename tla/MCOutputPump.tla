---------------------------- MODULE MCOutputPump ----------------------------
(***************************************************************************)
(* A reader whose batches are smaller than its reads and than the stream,  *)
(* with every combination of acknowledgements and external buffers.        *)
(***************************************************************************)
EXTENDS OutputPump

=============================================================================
