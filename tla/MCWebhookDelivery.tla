-------------------------- MODULE MCWebhookDelivery --------------------------
EXTENDS WebhookDelivery
=============================================================================
