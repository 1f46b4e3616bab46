------------------------------ MODULE MCCapture -----------------------------
EXTENDS CaptureToAnalysis

TokenAxis == [r \in Runners |-> "num_tokens"]
BatchAxis == [r \in Runners |-> "bs"]
=============================================================================
