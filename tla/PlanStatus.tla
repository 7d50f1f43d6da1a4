----------------------------- MODULE PlanStatus -----------------------------
(***************************************************************************)
(* The workflow statuses of a plan and the transition table every status   *)
(* patch is checked against (src/db/schemas.ts).  Constant-level: the      *)
(* modules that move a plan along the workflow all extend this one.        *)
(***************************************************************************)

V1Statuses == {"awaiting_review", "dismissed", "requirements_reviewed",
               "projects_matched", "scenes_generated", "finalized", "exported"}

V2Statuses == {"hooks_generated", "hook_selected", "shot_list_generated",
               "titles_generated", "title_selected", "thumbnails_generated",
               "thumbnail_selected", "shorts_extracted", "metadata_generated"}

Statuses == V1Statuses \cup V2Statuses

\* The forward edges and the one-step backward edges of PLAN_TRANSITIONS.
Transitions ==
  [ awaiting_review       |-> {"dismissed", "requirements_reviewed"},
    dismissed             |-> {"awaiting_review"},
    requirements_reviewed |-> {"projects_matched", "dismissed"},
    projects_matched      |-> {"scenes_generated", "requirements_reviewed"},
    scenes_generated      |-> {"finalized", "projects_matched", "hooks_generated"},
    finalized             |-> {"exported", "scenes_generated", "metadata_generated"},
    exported              |-> {"finalized"},
    hooks_generated       |-> {"hook_selected", "scenes_generated"},
    hook_selected         |-> {"shot_list_generated", "hooks_generated"},
    shot_list_generated   |-> {"titles_generated", "hook_selected"},
    titles_generated      |-> {"title_selected", "shot_list_generated"},
    title_selected        |-> {"thumbnails_generated", "titles_generated"},
    thumbnails_generated  |-> {"thumbnail_selected", "title_selected"},
    thumbnail_selected    |-> {"shorts_extracted", "thumbnails_generated"},
    shorts_extracted      |-> {"finalized", "thumbnail_selected"},
    metadata_generated    |-> {"exported", "finalized"} ]

\* isAllowedPlanTransition: staying put is always allowed.
Allowed(from, to) == from = to \/ to \in Transitions[from]

\* RUNNABLE_STATUSES: what the background pipeline is willing to start on.
Runnable == {"awaiting_review", "requirements_reviewed", "projects_matched"}
=============================================================================
