----------------------------- MODULE TransConfig -----------------------------
(***************************************************************************)
(* The size of the transformer (src/kernel/noc/trans.c): how it is chosen  *)
(* at boot, changed by the builtins TransConfig and TransMem, and what is  *)
(* allocated for it: the weight blob, the window on it, and the buffers of *)
(* the forward and the backward pass.  Sizes are computed as in the code;  *)
(* the numbers inside the buffers are left out.  A kmalloc of the buffers  *)
(* may fail; the one of the blob, at most an eighth of the RAM, does not.  *)
(***************************************************************************)
EXTENDS Integers

CONSTANTS TRANS_D_MIN, TRANS_D_MAX, TRANS_LAYERS_MIN, TRANS_LAYERS_MAX,
          TRANS_CTX_MIN, TRANS_CTX_MAX, TRANS_VOCAB, TRANS_HDR, TRANS_GEN_WIN,
          USER_MODEL_PAGES,  \* USER_MODEL_MAX / 4096
          Rams,        \* sizes of the machine, in KB
          LayerArgs,   \* what is asked of TransConfig, also out of range
          CtxArgs,
          CapArgs,     \* what is asked of TransMem, in KB
          LogSizes     \* what il_copy_tail returns to trans_train and trans_eval

ASSUME TransAssumption ==
  /\ {TRANS_D_MIN, TRANS_D_MAX, TRANS_LAYERS_MIN, TRANS_LAYERS_MAX, TRANS_CTX_MIN,
      TRANS_CTX_MAX, TRANS_VOCAB, TRANS_HDR, USER_MODEL_PAGES} \subseteq Nat
  /\ TRANS_D_MIN >= 8 /\ TRANS_GEN_WIN \in Nat \ {0}
  /\ LogSizes \subseteq Nat /\ CapArgs \subseteq Nat /\ Rams \subseteq Nat

VARIABLES
  total_kb,          \* pmm_total_bytes() / 1024
  cfg,               \* the configuration
  acap_override_kb,
  wbytes,            \* size of the weight blob
  block,             \* size of the heap block it lives in, 0 if none
  win_pages,         \* the model window
  fwd, bwd,          \* what the buffers are sized for, NoBuf if there are none
  passed,            \* tokens of the forward pass this step made, 0 if it made none
  tpc                \* "autotune" at boot, then "ready"

transVars == <<total_kb, cfg, acap_override_kb, wbytes, block, win_pages, fwd, bwd, passed, tpc>>

NoBuf == [d_model |-> 0, n_heads |-> 0, d_ff |-> 0, n_layers |-> 0, ctx |-> 0]

-----------------------------------------------------------------------------
(* Sizes *)

Clamp(x, lo, hi) == IF x < lo THEN lo ELSE IF x > hi THEN hi ELSE x

\* Set from the RAM by trans_init.
wbudget_kb == Clamp(total_kb \div 8, 8192, 2^20)
acap_kb == Clamp(total_kb \div 4, 4096, 2^20)

\* The cap, with an override or without (0).
trans_activ_cap_kb(over) == IF over # 0 THEN over ELSE acap_kb

lay_size(c) == 4 * c.d_model * c.d_model + 2 * c.d_model * c.d_ff + 4 * c.d_model

weights_bytes_of(c) ==
  TRANS_HDR + 2 * TRANS_VOCAB * c.d_model + c.n_layers * lay_size(c) + 2 * c.d_model

laybuf_words(c) == 4 * c.ctx * c.d_model + c.n_heads * c.ctx * c.ctx

\* What alloc_workspace and alloc_train ask for, in bytes.
workspace_bytes(c) ==
  2 * ((c.n_layers + 1) * c.ctx * c.d_model + c.n_layers * laybuf_words(c)
         + c.ctx * TRANS_VOCAB + c.ctx * c.d_model + c.d_ff)

activations_bytes(c) ==
  2 * (2 * c.n_layers * c.ctx * c.d_model + c.n_layers * c.ctx * c.d_ff
         + 2 * (c.n_layers + 1) * c.ctx * c.d_model + c.n_layers * laybuf_words(c)
         + c.ctx * TRANS_VOCAB)

gradients_bytes(c) ==
  8 * (weights_bytes_of(c) - TRANS_HDR + TRANS_VOCAB * c.d_model + c.ctx * c.d_model)

\* Mutant of working_kb: the stashed GELU outputs are forgotten.
working_kb_NoGact(c) ==
  (workspace_bytes(c) + activations_bytes(c) - 2 * c.n_layers * c.ctx * c.d_ff
     + gradients_bytes(c) + weights_bytes_of(c) + 1023) \div 1024

\* The code's own sum of all of them.
working_kb(c) ==
  LET C == c.ctx   D == c.d_model   F == c.d_ff   L == c.n_layers   V == TRANS_VOCAB
      laybuf == 3 * C * D + c.n_heads * C * C + C * D
      fwdw == (L + 1) * C * D + L * laybuf + C * V + C * D + F
      xtra == L * 2 * C * D + L * C * F + (L + 1) * C * D
      bwdw == L * laybuf + (L + 1) * C * D + C * V
      bytes == (fwdw + xtra + bwdw) * 2 + 8 * (weights_bytes_of(c) - TRANS_HDR)
                 + 8 * V * D + 8 * C * D + weights_bytes_of(c)
  IN (bytes + 1023) \div 1024

Fits(c, cap) == /\ working_kb(c) <= cap
                /\ weights_bytes_of(c) \div 1024 <= wbudget_kb

-----------------------------------------------------------------------------
(* The search for a configuration *)

Heads(d) == IF d >= 8 THEN 8 ELSE d
Widened(c, d) == [c EXCEPT !.d_model = d, !.d_ff = 4 * d, !.n_heads = Heads(d)]

\* One round of degrade: ctx first, then d_ff, layers and d_model.
Shrinkable(c) == \/ c.ctx > TRANS_CTX_MIN \/ c.d_ff > c.d_model
                 \/ c.n_layers > TRANS_LAYERS_MIN \/ c.d_model > TRANS_D_MIN

Shrunk(c) ==
  IF c.ctx > TRANS_CTX_MIN THEN [c EXCEPT !.ctx = @ \div 2]
  ELSE IF c.d_ff > c.d_model THEN [c EXCEPT !.d_ff = @ \div 2]
  ELSE IF c.n_layers > TRANS_LAYERS_MIN THEN [c EXCEPT !.n_layers = @ \div 2]
  ELSE Widened(c, c.d_model \div 2)

\* The smallest configuration.
Floor == [d_model |-> TRANS_D_MIN, n_heads |-> Heads(TRANS_D_MIN), d_ff |-> TRANS_D_MIN,
          n_layers |-> TRANS_LAYERS_MIN, ctx |-> TRANS_CTX_MIN]

\* Every machine has the weights of the smallest model in its budget, and the
\* window shows all of the budget: trans_init caps it at the 2^30 bytes of the
\* window, and Fits lets the weights exceed it by less than a KB (which only
\* machines of 8 GB and more could make use of).
ASSUME WindowAssumption ==
  /\ weights_bytes_of(Floor) <= 1024 * 8192
  /\ \A r \in Rams : 1024 * Clamp(r \div 8, 8192, 2^20) + 1023 <= 4096 * USER_MODEL_PAGES

Configs == [d_model : Nat, n_heads : 0..8, d_ff : Nat, n_layers : Nat, ctx : Nat]

\* Where degrade stops; it returns true if that configuration fits.
degrade(c, cap) ==
  LET stop[x \in Configs] == IF Fits(x, cap) \/ ~Shrinkable(x) THEN x ELSE stop[Shrunk(x)]
  IN stop[c]

\* The trials of one round of autotune, in the order they are made.
Trials(c) ==
  << [c EXCEPT !.ctx = Clamp(2 * @, 0, TRANS_CTX_MAX)],
     [c EXCEPT !.d_ff = Clamp(2 * @, 0, 16 * c.d_model)],
     [c EXCEPT !.n_layers = Clamp(2 * @, 0, TRANS_LAYERS_MAX)],
     Widened(c, Clamp(2 * c.d_model, 0, TRANS_D_MAX)) >>

Fitting(c) == {i \in 1..4 : Fits(Trials(c)[i], acap_kb)}

-----------------------------------------------------------------------------
(* Blob and window *)

WindowPages(bytes) == Clamp((bytes + 4095) \div 4096, 1, USER_MODEL_PAGES)

\* alloc_blob for configuration c: the old block is kept if it is large
\* enough and not more than twice too large.
alloc_blob(c) ==
  LET n == weights_bytes_of(c) IN
  /\ wbytes' = n
  /\ block' = (IF block # 0 /\ wbytes >= n /\ wbytes <= 2 * n THEN block ELSE n)

model_window_setup == win_pages' = WindowPages(wbytes')

free_workspace == fwd' = NoBuf /\ bwd' = NoBuf

-----------------------------------------------------------------------------
(* Boot *)

TransInit ==
  /\ total_kb \in Rams
  /\ cfg = [d_model |-> 64, n_heads |-> 8, d_ff |-> 256, n_layers |-> 8, ctx |-> 256]
  /\ acap_override_kb = 0 /\ wbytes = 0 /\ block = 0 /\ win_pages = 16
  /\ fwd = NoBuf /\ bwd = NoBuf /\ passed = 0 /\ tpc = "autotune"

\* A round that takes a trial, the first that fits.
AutotuneGrow ==
  /\ tpc = "autotune" /\ Fitting(cfg) # {}
  /\ cfg' = Trials(cfg)[CHOOSE i \in Fitting(cfg) : \A j \in Fitting(cfg) : i <= j]
  /\ UNCHANGED <<total_kb, acap_override_kb, wbytes, block, win_pages, fwd, bwd, passed, tpc>>

\* The round that takes none, and the rest of trans_init.
AutotuneDone ==
  /\ tpc = "autotune" /\ Fitting(cfg) = {}
  /\ cfg' = degrade(cfg, acap_kb) /\ alloc_blob(cfg') /\ model_window_setup
  /\ tpc' = "ready"
  /\ UNCHANGED <<total_kb, acap_override_kb, fwd, bwd, passed>>

-----------------------------------------------------------------------------
(* Builtins *)

\* Mutant of Reconfigure: the buffers of the old model are kept.
Reconfigure_KeepsBuffers(c) ==
  IF c = cfg
  THEN UNCHANGED <<cfg, wbytes, block, fwd, bwd, win_pages>>
  ELSE cfg' = c /\ alloc_blob(c) /\ model_window_setup /\ UNCHANGED <<fwd, bwd>>

\* The model becomes c, if that is a change.
Reconfigure(c) ==
  IF c = cfg
  THEN UNCHANGED <<cfg, wbytes, block, fwd, bwd, win_pages>>
  ELSE cfg' = c /\ alloc_blob(c) /\ free_workspace /\ model_window_setup

InRange(x, lo, hi, else) == IF x \in lo..hi THEN x ELSE else

\* t made to fit the cap; the current model is kept if that is impossible.
Effective(t, cap) == IF Fits(degrade(t, cap), cap) THEN degrade(t, cap) ELSE cfg

\* A request for the current model is not made to fit.
trans_config(layers, ctx) ==
  LET t == [cfg EXCEPT !.n_layers = InRange(layers, TRANS_LAYERS_MIN, TRANS_LAYERS_MAX, @),
                       !.ctx = InRange(ctx, TRANS_CTX_MIN, TRANS_CTX_MAX, @)]
      cap == trans_activ_cap_kb(acap_override_kb)
  IN /\ tpc = "ready"
     /\ Reconfigure(IF t = cfg THEN cfg ELSE Effective(t, cap))
     /\ passed' = 0
     /\ UNCHANGED <<total_kb, acap_override_kb, tpc>>

trans_set_act_cap(kb) ==
  LET over == IF kb = 0 THEN 0 ELSE Clamp(kb, 64, 2^20) IN
  /\ tpc = "ready"
  /\ acap_override_kb' = over
  /\ Reconfigure(Effective(cfg, trans_activ_cap_kb(over)))
  /\ passed' = 0
  /\ UNCHANGED <<total_kb, tpc>>

trans_reset ==
  /\ tpc = "ready"
  /\ alloc_blob(cfg) /\ passed' = 0
  /\ UNCHANGED <<total_kb, cfg, acap_override_kb, win_pages, fwd, bwd, tpc>>

\* Buffers there are stay; others are allocated for the configuration, or
\* are not to be had.
Allocates(buf) == IF buf # NoBuf THEN {buf} ELSE {cfg, NoBuf}

Tokens(nb) == Clamp(nb - 2, 0, cfg.ctx)

\* The passes over the end of a log of nb bytes.
trans_train(nb) ==
  /\ tpc = "ready" /\ nb >= 4
  /\ fwd' \in Allocates(fwd)
  /\ bwd' \in IF fwd' = NoBuf THEN {bwd} ELSE Allocates(bwd)
  /\ passed' = IF fwd' = NoBuf \/ bwd' = NoBuf THEN 0 ELSE Tokens(nb)
  /\ UNCHANGED <<total_kb, cfg, acap_override_kb, wbytes, block, win_pages, tpc>>

trans_eval(nb) ==
  /\ tpc = "ready"
  /\ fwd' \in Allocates(fwd)
  /\ passed' = IF fwd' = NoBuf \/ nb < 2 THEN 0 ELSE Tokens(nb)
  /\ UNCHANGED <<total_kb, cfg, acap_override_kb, wbytes, block, win_pages, bwd, tpc>>

\* The window of trans_generate grows with the output, up to TRANS_GEN_WIN.
trans_generate(n) ==
  /\ tpc = "ready"
  /\ fwd' \in Allocates(fwd)
  /\ passed' = IF fwd' = NoBuf THEN 0 ELSE n
  /\ UNCHANGED <<total_kb, cfg, acap_override_kb, wbytes, block, win_pages, bwd, tpc>>

TransNext ==
  \/ AutotuneGrow \/ AutotuneDone \/ trans_reset
  \/ \E l \in LayerArgs, c \in CtxArgs : trans_config(l, c)
  \/ \E kb \in CapArgs : trans_set_act_cap(kb)
  \/ \E nb \in LogSizes : trans_train(nb) \/ trans_eval(nb)
  \/ \E n \in {1, TRANS_GEN_WIN} : trans_generate(n)

TransSpec == TransInit /\ [][TransNext]_transVars

\* The boot code runs to its end if it has one.
TransFairSpec == TransSpec /\ WF_transVars(AutotuneGrow \/ AutotuneDone)

-----------------------------------------------------------------------------
(* Properties *)

\* The buffers there are, the part of the heap that is used for the model, and
\* the part that is kept for it: the block of the blob may be larger than the
\* weights in it.
Buffers == (IF fwd = NoBuf THEN 0 ELSE workspace_bytes(fwd))
             + (IF bwd = NoBuf THEN 0 ELSE activations_bytes(bwd) + gradients_bytes(bwd))
Used == wbytes + Buffers
Held == block + Buffers

Cap == trans_activ_cap_kb(acap_override_kb)

\* After any sequence of requests, caps, resets and passes the code's estimate
\* covers the weights and every buffer allocated since, and a model that could
\* be made to fit the cap that holds now does fit it: degrade and the builtins
\* give up only where not even the smallest configuration would.
FitsWhenPossible ==
  tpc = "ready" => /\ Used <= 1024 * working_kb(cfg)
                   /\ Fits(Floor, Cap) => Fits(cfg, Cap)

\* trans.h of trans_config: it degrades "so the effective model always fits",
\* and trans_set_act_cap re-derives it "so the current model still fits the new
\* cap" (trans.c:1432), whatever the cap.
ModelFits == tpc = "ready" => Fits(cfg, Cap)

\* working_kb "mirrors what alloc_workspace + alloc_train actually allocate so
\* graceful degradation tracks the true footprint", the weight blob included
\* (trans.c:1160): what the heap keeps for the model is no more than it says.
FootprintTracked == tpc = "ready" => Held <= 1024 * working_kb(cfg)

\* The blob holds all weights of the configuration, the window shows the
\* whole blob, the buffers that exist are sized for this configuration and
\* no other, and a pass over the log stays within them (trans_generate only
\* does so while ctx is at least its window, TRANS_GEN_WIN).
BuffersMatch ==
  tpc = "ready" =>
    /\ wbytes = weights_bytes_of(cfg) /\ wbytes <= block
    /\ 4096 * win_pages >= wbytes
    /\ fwd \in {NoBuf, cfg} /\ bwd \in {NoBuf, cfg}
    /\ passed > 0 => fwd = cfg /\ (passed <= cfg.ctx \/ passed <= TRANS_GEN_WIN)

\* "grow deterministically while the budgets allow [...] on larger machines
\* the model scales up with the RAM" (trans.c:1222): autotune comes to an end.
AutotuneEnds == <>(tpc = "ready")
=============================================================================
