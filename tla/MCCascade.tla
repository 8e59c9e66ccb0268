------------------------------ MODULE MCCascade ------------------------------
(* A project bound to one environment with one binding of each kind. *)
EXTENDS Cascade

CONSTANTS e1, b1, b2, b3

Kind ==
    [b \in Bindings |->
        CASE b = b1 -> ReleaseBinding
          [] b = b2 -> ProjectReleaseBinding
          [] b = b3 -> ResourceReleaseBinding]

\* A tenant with a component and one with a retained resource, deleted from the
\* top, and the resource tenant deleted from the bottom.
Top == {"Project", "DeploymentPipeline", "DataPlane", e1}

ThreeTenants ==
    {[bindings |-> {b1, b2}, deletes |-> Top],
     [bindings |-> {b2, b3}, deletes |-> Top],
     [bindings |-> {b2, b3}, deletes |-> {"Project", "ResourceRelease", b3}]}

OneTenant == {[bindings |-> {b2, b3}, deletes |-> {"Project", b3}]}

OneEnv == [b \in Bindings |-> e1]

=============================================================================
