-------------------------- MODULE MCTopicLifecycle --------------------------
(* Deployments and thread sets for TopicLifecycle. *)
EXTENDS TopicLifecycle, FiniteSets, TLC

CONSTANTS s1, s2, u1, sw, jb, gn, in1, li1, li2, cl

\* HUB_MODE=api, ingest and delivery, each in a process of its own.
Split == [k \in Kinds |->
             CASE k \in {"subscribe", "unsubscribe"} -> "api"
               [] k = "sweep" -> "ingest"
               [] k = "cleanup" -> "cleanup"
               [] OTHER -> "delivery"]

Kind == [t \in Threads |->
            CASE t \in {s1, s2} -> "subscribe"
              [] t = u1 -> "unsubscribe"
              [] t = sw -> "sweep"
              [] t = jb -> "job"
              [] t = gn -> "gone"
              [] t = in1 -> "inactive"
              [] t \in {li1, li2} -> "listener"
              [] t = cl -> "cleanup"]
=============================================================================
