---------------------------- MODULE Configuration ----------------------------
(***************************************************************************)
(* What a configuration is, which values the settings page may change and  *)
(* when a whole configuration is valid.  Six settings stand for the        *)
(* registry: two that only a restart applies and that exclude each other,  *)
(* the notifier's pair that is only valid together, and two the running    *)
(* process is meant to follow at once.                                     *)
(***************************************************************************)
EXTENDS Integers, Sequences

CONSTANTS Url,          \* an address the notifier may post to
          Domains       \* names somebody may give as public.host

Switch == {"on", "off"}
NeedsRestart == {"rdp_login.enabled", "jit.enabled"}
Live == {"notify.enabled", "notify.url", "public.host", "public.detect"}
Registry == NeedsRestart \union Live

\* What the setter of a field accepts: "" stands for an empty field.
Takes(key) ==
    CASE key = "notify.url" -> {"", Url}
      [] key = "public.host" -> Domains \union {""}
      [] OTHER -> Switch

Config == {c \in [Registry -> Switch \union Domains \union {"", Url}] :
             \A key \in Registry : c[key] \in Takes(key)}

\* The rules of Validate that tie settings together.
Validate(c) ==
    /\ c["rdp_login.enabled"] # c["jit.enabled"]
    /\ c["notify.enabled"] = "on" => c["notify.url"] # ""

\* Stored rows over a base; a key that is not in the registry is skipped.
Layer(base, overrides) ==
    [key \in Registry |-> IF key \in DOMAIN overrides THEN overrides[key]
                                                      ELSE base[key]]
Known(overrides) == DOMAIN overrides \intersect Registry
Applies(base, overrides) ==
    /\ \A key \in Known(overrides) : overrides[key] \in Takes(key)
    /\ Validate(Layer(base, overrides))

\* Apply returns the base beside the error, so a caller that goes on has it.
Apply(base, overrides) ==
    IF Applies(base, overrides) THEN Layer(base, overrides) ELSE base

\* Load: the environment wins over the file.
Loaded(file, env) == Layer(file, env)
CanLoad(file, env) == Applies(file, env)

NotifyConfig(c) == [enabled |-> c["notify.enabled"], url |-> c["notify.url"]]
PublicHost(c) == c["public.host"]
Detects(c) == c["public.detect"] = "on"

\* Listen: the first address nobody else holds, in the order they are given.
Listen(addresses, taken) ==
    LET free == SelectSeq(addresses, LAMBDA a : a \notin taken)
    IN IF free = <<>> THEN "" ELSE Head(free)
=============================================================================
