-------------------------- MODULE AttentionDispatch --------------------------
(***************************************************************************)
(* The control of HPUAttentionImpl: the checks of __init__ and, for one   *)
(* forward call, the path the call takes and what it hands the kernel it  *)
(* ends in.  Tensors are abstracted to whether they are given and, for    *)
(* the ALiBi bias, to their shapes; the arithmetic is AttentionCore's and *)
(* the cache contents are HPUAttention's and EncDecAttention's.           *)
(***************************************************************************)
EXTENDS Naturals, Sequences

CONSTANTS
  HeadCounts,     \* num_heads
  KVHeadCounts,   \* num_kv_heads
  AttnTypes,      \* "decoder", "encoder_decoder" and an unsupported type
  BatchSize,      \* rows of the prompt batch (shape of attn_bias)
  SeqLen,         \* tokens per prompt (shape of attn_bias)
  KVCaches        \* kinds of kv_cache the caller passes: "tuple", "none"

VARIABLES
  cfg,     \* the constructor's arguments and flags
  call,    \* the attention metadata of the forward call
  pc,      \* "init", "ready", "rejected", "returned", "raised"
  kernel   \* the kernel the call ended in, with what it was handed

vars == <<cfg, call, pc, kernel>>

Configs ==
  [heads : HeadCounts, kvHeads : KVHeadCounts, alibi : BOOLEAN,
   fsdpa : BOOLEAN, headOK : BOOLEAN, attnType : AttnTypes]

(* The metadata the model runner builds: a decode call always has a      *)
(* block list and is never a merged prefill, a prompt's attn_bias is set *)
(* before model.forward (the message of the assert at 361-362), and the  *)
(* only call without a cache is the memory-profiling prompt over the     *)
(* not-yet-cached key/value (the comment at 347-349), which has no       *)
(* cached prefix.                                                        *)
Calls ==
  { c \in [prompt : BOOLEAN, kv : KVCaches, blockList : BOOLEAN,
           merged : BOOLEAN, bias : BOOLEAN] :
      /\ ~c.prompt => c.blockList /\ ~c.merged
      /\ c.prompt => c.bias
      /\ c.kv = "none" => c.prompt /\ ~c.blockList }

Kernels == {"prompt_attention", "prompt_fsdpa", "forward_prefix", "flat_pa", "forward_decode"}

NoKernel == [name |-> "none", bias |-> "none", valid |-> FALSE, writes |-> FALSE]

KernelCalls ==
  [name : Kernels, bias : {"none", "given", "zeros"}, valid : BOOLEAN, writes : BOOLEAN]

(***************************************************************************)
(* __init__ (249-296).                                                    *)
(***************************************************************************)
Accepted(c) ==
  /\ c.heads % c.kvHeads = 0
  /\ c.fsdpa => ~c.alibi
  /\ c.headOK
  /\ c.attnType \in {"decoder", "encoder_decoder"}

Init ==
  /\ cfg \in Configs
  /\ call \in Calls
  /\ pc = "init"
  /\ kernel = NoKernel

Construct ==
  /\ pc = "init"
  /\ Accepted(cfg)
  /\ pc' = "ready"
  /\ UNCHANGED <<cfg, call, kernel>>

ConstructRaises ==
  /\ pc = "init"
  /\ ~Accepted(cfg)
  /\ pc' = "rejected"
  /\ UNCHANGED <<cfg, call, kernel>>

(***************************************************************************)
(* _make_alibi_bias (545-574) by the shape it returns, and the in-place   *)
(* add into the tiled attn_bias (369-371).                                *)
(***************************************************************************)
AlibiShape ==
  IF cfg.heads # cfg.kvHeads
  THEN <<1, cfg.kvHeads, cfg.heads \div cfg.kvHeads, SeqLen, SeqLen>>
  ELSE <<1, cfg.heads, SeqLen, SeqLen>>

TiledBiasShape == <<BatchSize, cfg.kvHeads, SeqLen, SeqLen>>

(* x.add_(y) needs y to broadcast to the shape of x. *)
BroadcastsTo(src, dst) ==
  /\ Len(src) <= Len(dst)
  /\ \A i \in 1 .. Len(src) :
       LET d == dst[Len(dst) - Len(src) + i] IN src[i] \in {1, d}

(* key_cache is bound only when kv_cache is a tuple (343-353, 473-486). *)
KeyCacheBound == call.kv = "tuple"

(* A call that raises ends with no kernel; one that returns records it. *)
Finish(raises, k) ==
  /\ pc' = IF raises THEN "raised" ELSE "returned"
  /\ kernel' = IF raises THEN NoKernel ELSE k
  /\ UNCHANGED <<cfg, call>>

(***************************************************************************)
(* forward, decoder self-attention, prompt without block_list (356-393):  *)
(* without FusedSDPA the bias must be set and gets the ALiBi bias added;  *)
(* with it the bias is kept for a merged prefill and dropped otherwise;   *)
(* a merged prefill with FusedSDPA goes to prompt_fsdpa, which passes the *)
(* bias but not valid_seq_lengths to the kernel (36-58).                 *)
(***************************************************************************)
(* Mutant: the `elif enable_merged_prefill: pass` branch dropped. *)
PromptBiasDroppedMerged == ~cfg.fsdpa

PromptBiasKept == ~cfg.fsdpa \/ call.merged

PromptKernel == IF call.merged /\ cfg.fsdpa THEN "prompt_fsdpa" ELSE "prompt_attention"

PromptRaises ==
  /\ ~cfg.fsdpa
  /\ ~call.bias \/ (cfg.alibi /\ ~BroadcastsTo(AlibiShape, TiledBiasShape))

(* prompt_fsdpa calls the fused kernel with None for valid_seq_lengths. *)
KernelGetsValidLengths(name) == name = "prompt_attention"

(* Mutant: the bias assert and the ALiBi add checked after the kernel. *)
PromptCallAssertLate ==
  /\ pc = "ready" /\ cfg.attnType = "decoder" /\ call.prompt /\ ~call.blockList
  /\ pc' = IF PromptRaises THEN "raised" ELSE "returned"
  /\ kernel' = [name |-> PromptKernel,
                bias |-> IF PromptBiasKept /\ call.bias THEN "given" ELSE "none",
                valid |-> KernelGetsValidLengths(PromptKernel), writes |-> KeyCacheBound]
  /\ UNCHANGED <<cfg, call>>

PromptCall ==
  /\ pc = "ready" /\ cfg.attnType = "decoder" /\ call.prompt /\ ~call.blockList
  /\ Finish(PromptRaises,
            [name |-> PromptKernel,
             bias |-> IF PromptBiasKept /\ call.bias THEN "given" ELSE "none",
             valid |-> KernelGetsValidLengths(PromptKernel),
             writes |-> KeyCacheBound])

(* A prompt with a cached prefix (394-409) reads key_cache. *)
PrefixCall ==
  /\ pc = "ready" /\ cfg.attnType = "decoder" /\ call.prompt /\ call.blockList
  /\ Finish(~KeyCacheBound,
            [name |-> "forward_prefix", bias |-> IF call.bias THEN "given" ELSE "none",
             valid |-> FALSE, writes |-> KeyCacheBound])

(* A decode (411-430) runs flat_pa on key_cache. *)
DecodeCall ==
  /\ pc = "ready" /\ cfg.attnType = "decoder" /\ ~call.prompt
  /\ Finish(~KeyCacheBound,
            [name |-> "flat_pa", bias |-> "given", valid |-> FALSE, writes |-> KeyCacheBound])

(* forward_encoder_decoder: the prompt writes the encoder key/value when  *)
(* the cache is given and runs ops.prompt_attention with an all-zero bias *)
(* (488-512); the decode gets key None, writes nothing and runs           *)
(* forward_decode on key_cache (514-541).                                *)
CrossPromptCall ==
  /\ pc = "ready" /\ cfg.attnType = "encoder_decoder" /\ call.prompt
  /\ Finish(FALSE,
            [name |-> "prompt_attention", bias |-> "zeros", valid |-> FALSE,
             writes |-> KeyCacheBound])

CrossDecodeCall ==
  /\ pc = "ready" /\ cfg.attnType = "encoder_decoder" /\ ~call.prompt
  /\ Finish(~KeyCacheBound,
            [name |-> "forward_decode", bias |-> "given", valid |-> FALSE, writes |-> FALSE])

Next ==
  \/ Construct \/ ConstructRaises
  \/ PromptCall \/ PrefixCall \/ DecodeCall
  \/ CrossPromptCall \/ CrossDecodeCall

Spec == Init /\ [][Next]_vars

(***************************************************************************)
(* Properties.                                                            *)
(***************************************************************************)
(* Types, and a kernel recorded exactly for the calls that returned: a    *)
(* call that raises does so before its kernel runs.                       *)
TypeOK ==
  /\ cfg \in Configs
  /\ call \in Calls
  /\ pc \in {"init", "ready", "rejected", "returned", "raised"}
  /\ pc = "returned" => kernel \in KernelCalls
  /\ pc # "returned" => kernel = NoKernel

(* Every decoder prompt that reaches a dense prompt kernel hands it what  *)
(* keeps the sequences of the batch apart: an attention bias or the valid *)
(* sequence lengths (the bias handling of forward, 359-392, and           *)
(* prompt_fsdpa).                                                         *)
PromptKernelSeparatesSequences ==
  (pc = "returned" /\ cfg.attnType = "decoder" /\ call.prompt
     /\ kernel.name \in {"prompt_attention", "prompt_fsdpa"})
    => kernel.bias = "given" \/ kernel.valid

(* A layer the constructor accepted returns on every call the runner     *)
(* builds, the memory-profiling prompt without a cache included: spec.md  *)
(* 7 detects configuration errors at construction, before any forward     *)
(* call.                                                                  *)
AcceptedLayerCallsReturn == pc # "raised"
=============================================================================
