-------------------------------- MODULE MCPipe --------------------------------
(* Model checking of Pipe: a chunk of a few bytes stands for one of 255.      *)
EXTENDS Pipe

ASSUME SeveralChunks == MaxBytes > ChunkSize

===============================================================================
