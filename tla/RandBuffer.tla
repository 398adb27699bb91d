------------------------------- MODULE RandBuffer -------------------------------
(*******************************************************************************)
(* server/internal/ecdsa/ecdsa.go: SyncRandBuffer, filled by the workers of a  *)
(* BackgroundPool (server/internal/worker/worker.go) and emptied by concurrent *)
(* calls of Sign, each of which uses up one nonce for its signature.           *)
(*                                                                             *)
(* genRandForSign gives a nonce that was never given before: either one of the *)
(* set Nonce, whose fate is followed, or Untracked, which stands for all the   *)
(* nonces nobody follows.                                                      *)
(*******************************************************************************)
EXTENDS Integers, Sequences

CONSTANTS Filler,         \* the goroutines of the BackgroundPool
          Signer,         \* goroutines that call Sign
          RandBufferLen,  \* the capacity of the channel buf
          Nonce, Untracked

ASSUME BufferAssumption == /\ RandBufferLen \in Nat \ {0}
                           /\ Untracked \notin Nonce
                           /\ Filler \cap Signer = {}

VARIABLES buf,        \* the channel of precomputed nonces
          fpc,        \* where each background worker is
          spc,        \* where each signer is
          hand,       \* the nonce a goroutine has in hand
          cancelled,  \* the context of the pool is cancelled
          bpc,        \* where the caller of BackgroundPool.Destroy is
          crashed,    \* a background worker has panicked
          generated,  \* history: the followed nonces generated so far
          signed      \* history: how often each has signed

bufferVars == <<buf, fpc, spc, hand, cancelled, bpc, crashed, generated, signed>>

Goroutine == Filler \cup Signer
Value == Nonce \cup {Untracked}

BufferInit ==
    /\ buf = <<>>
    /\ fpc = [f \in Filler |-> "loop"]
    /\ spc = [s \in Signer |-> "idle"]
    /\ hand = [g \in Goroutine |-> Untracked]
    /\ cancelled = FALSE
    /\ bpc = "idle"
    /\ crashed = FALSE
    /\ generated = {}
    /\ signed = [n \in Nonce |-> 0]

genRandForSign(g) ==
    \E n \in (Nonce \ generated) \cup {Untracked} :
        /\ hand' = [hand EXCEPT ![g] = n]
        /\ generated' = generated \cup ({n} \cap Nonce)
--------------------------------------------------------------------------------
(* BackgroundPool.worker: return if the context is done, else Fill             *)
Loop(f) ==
    /\ fpc[f] = "loop"
    /\ fpc' = [fpc EXCEPT ![f] = IF cancelled THEN "quit" ELSE "generate"]
    /\ UNCHANGED <<buf, spc, hand, cancelled, bpc, crashed, generated, signed>>

FillGenerate(f) ==
    /\ fpc[f] = "generate"
    /\ genRandForSign(f)
    /\ fpc' = [fpc EXCEPT ![f] = "put"]
    /\ UNCHANGED <<buf, spc, cancelled, bpc, crashed, signed>>

(* The source of randomness fails, and randGenWorker.Do panics.                *)
FillPanic(f) ==
    /\ fpc[f] = "generate"
    /\ crashed' = TRUE
    /\ UNCHANGED <<buf, fpc, spc, hand, cancelled, bpc, generated, signed>>

(* Mutant: the select has no case for the context. *)
FillPutDeaf(f) ==
    /\ fpc[f] = "put"
    /\ \/ Len(buf) < RandBufferLen /\ buf' = Append(buf, hand[f])
    /\ fpc' = [fpc EXCEPT ![f] = "loop"]
    /\ UNCHANGED <<spc, hand, cancelled, bpc, crashed, generated, signed>>

(* select: the value goes into the buffer, or it is dropped on cancellation.   *)
FillPut(f) ==
    /\ fpc[f] = "put"
    /\ \/ Len(buf) < RandBufferLen /\ buf' = Append(buf, hand[f])
       \/ cancelled /\ UNCHANGED buf
    /\ fpc' = [fpc EXCEPT ![f] = "loop"]
    /\ UNCHANGED <<spc, hand, cancelled, bpc, crashed, generated, signed>>
--------------------------------------------------------------------------------
(* Sign: take a nonce from the buffer, generate one if there is none there,    *)
(* and start over if it makes s zero.                                          *)
SignCall(s) ==
    /\ spc[s] = "idle"
    /\ spc' = [spc EXCEPT ![s] = "gen"]
    /\ UNCHANGED <<buf, fpc, hand, cancelled, bpc, crashed, generated, signed>>

(* Mutant: the nonce stays in the buffer. *)
GenPeek(s) ==
    /\ spc[s] = "gen"
    /\ \/ /\ buf # <<>>
          /\ hand' = [hand EXCEPT ![s] = Head(buf)]
          /\ UNCHANGED buf
          /\ UNCHANGED generated
       \/ /\ buf = <<>>
          /\ genRandForSign(s)
          /\ UNCHANGED buf
    /\ spc' = [spc EXCEPT ![s] = "compute"]
    /\ UNCHANGED <<fpc, cancelled, bpc, crashed, signed>>

Gen(s) ==
    /\ spc[s] = "gen"
    /\ \/ /\ buf # <<>>
          /\ hand' = [hand EXCEPT ![s] = Head(buf)]
          /\ buf' = Tail(buf)
          /\ UNCHANGED generated
       \/ /\ buf = <<>>
          /\ genRandForSign(s)
          /\ UNCHANGED buf
    /\ spc' = [spc EXCEPT ![s] = "compute"]
    /\ UNCHANGED <<fpc, cancelled, bpc, crashed, signed>>

GenError(s) ==
    /\ spc[s] = "gen" /\ buf = <<>>
    /\ spc' = [spc EXCEPT ![s] = "idle"]
    /\ UNCHANGED <<buf, fpc, hand, cancelled, bpc, crashed, generated, signed>>

Compute(s) ==
    /\ spc[s] = "compute"
    /\ spc' = [spc EXCEPT ![s] = "idle"]
    /\ signed' = [n \in Nonce |-> IF n = hand[s] THEN signed[n] + 1 ELSE signed[n]]
    /\ UNCHANGED <<buf, fpc, hand, cancelled, bpc, crashed, generated>>

ComputeZero(s) ==
    /\ spc[s] = "compute"
    /\ spc' = [spc EXCEPT ![s] = "gen"]
    /\ UNCHANGED <<buf, fpc, hand, cancelled, bpc, crashed, generated, signed>>
--------------------------------------------------------------------------------
(* BackgroundPool.Destroy                                                      *)
Cancel ==
    /\ bpc = "idle"
    /\ cancelled' = TRUE
    /\ bpc' = "wait"
    /\ UNCHANGED <<buf, fpc, spc, hand, crashed, generated, signed>>

BackgroundDestroyReturn ==
    /\ bpc = "wait"
    /\ \A f \in Filler : fpc[f] = "quit"
    /\ bpc' = "returned"
    /\ UNCHANGED <<buf, fpc, spc, hand, cancelled, crashed, generated, signed>>

filler(f) == Loop(f) \/ FillGenerate(f) \/ FillPut(f)
(* Mutant: the select in gen has no default. *)
SignWaits(s) == (buf # <<>> /\ Gen(s)) \/ Compute(s)

Sign(s) == Gen(s) \/ GenError(s) \/ Compute(s)

Step == \/ \E f \in Filler : filler(f) \/ FillPanic(f)
        \/ \E s \in Signer : SignCall(s) \/ Sign(s) \/ ComputeZero(s)
        \/ Cancel \/ BackgroundDestroyReturn

BufferNext == ~crashed /\ Step

BufferSpec == BufferInit /\ [][BufferNext]_bufferVars

(* Goroutines get on.  A nonce that makes s zero comes up with negligible      *)
(* probability: Compute is not put off by ComputeZero forever.                 *)
BufferFairness ==
    /\ \A f \in Filler : WF_bufferVars(~crashed /\ filler(f))
    /\ \A s \in Signer : /\ WF_bufferVars(~crashed /\ Sign(s))
                         /\ SF_bufferVars(~crashed /\ Compute(s))
    /\ WF_bufferVars(~crashed /\ BackgroundDestroyReturn)

BufferFairSpec == BufferSpec /\ BufferFairness
--------------------------------------------------------------------------------
BufferTypeOK ==
    /\ buf \in Seq(Value) /\ Len(buf) <= RandBufferLen
    /\ fpc \in [Filler -> {"loop", "generate", "put", "quit"}]
    /\ spc \in [Signer -> {"idle", "gen", "compute"}]
    /\ hand \in [Goroutine -> Value]
    /\ cancelled \in BOOLEAN
    /\ bpc \in {"idle", "wait", "returned"}
    /\ crashed \in BOOLEAN
    /\ generated \subseteq Nonce
    /\ signed \in [Nonce -> Nat]

(* No nonce is used for two signatures, however fillers, signers and the        *)
(* destruction of the pool interleave: two signatures with one nonce reveal    *)
(* the private key.                                                            *)
NoNonceTwice == \A n \in Nonce : signed[n] <= 1

(* Destroy returns although the buffer may be full and every background worker *)
(* blocked on it, unless the process has crashed.                              *)
DestroyReturns == bpc = "wait" ~> (bpc = "returned" \/ crashed)

(* Sign returns: it never waits for the fillers, even after they have quit.    *)
SignReturns == \A s \in Signer : spc[s] # "idle" ~> (spc[s] = "idle" \/ crashed)
================================================================================
